---- MODULE Spec2Model ----
(***************************************************************************)
(* A model of mcp_notes.storage.Storage: a tree of directories holding     *)
(* markdown note files and one notes_index.json per directory.             *)
(*                                                                         *)
(* Strings (titles, tags, contents, filenames, paths) are sequences of     *)
(* one-character strings, so that slugging, splitting on '/', header       *)
(* parsing and substring replacement are computed as the code computes     *)
(* them.  A path is the string relative to the store root; the root        *)
(* directory is the empty string.                                          *)
(***************************************************************************)
EXTENDS Integers, Sequences, FiniteSets, TLC

VARIABLES dirs, files, index, call

vars == <<dirs, files, index, call>>

(***************************************************************************)
(* String primitives (Python str methods used by storage.py).              *)
(***************************************************************************)
LowerAlpha == <<"a","b","c","d","e","f","g","h","i","j","k","l","m",
                "n","o","p","q","r","s","t","u","v","w","x","y","z">>

UpperAlpha == <<"A","B","C","D","E","F","G","H","I","J","K","L","M",
                "N","O","P","Q","R","S","T","U","V","W","X","Y","Z">>

DigitChars == <<"0","1","2","3","4","5","6","7","8","9">>

NL == "\n"

MD == <<".", "m", "d">>

TagsPrefix == <<"T", "a", "g", "s", ":", " ">>

TitlePrefix == <<"#", " ">>

CommaSpace == <<",", " ">>

\* str.lower() on one ASCII character
Lower(c) ==
    IF \E i \in 1..Len(UpperAlpha) : UpperAlpha[i] = c
    THEN LowerAlpha[CHOOSE i \in 1..Len(UpperAlpha) : UpperAlpha[i] = c]
    ELSE c

\* the character class [a-zA-Z0-9]
IsAlnum(c) ==
    \/ \E i \in 1..Len(LowerAlpha) : LowerAlpha[i] = c
    \/ \E i \in 1..Len(UpperAlpha) : UpperAlpha[i] = c
    \/ \E i \in 1..Len(DigitChars) : DigitChars[i] = c

\* str(n) for n >= 0
RECURSIVE IntToStr(_)
IntToStr(n) ==
    IF n < 10 THEN <<DigitChars[n + 1]>>
    ELSE IntToStr(n \div 10) \o <<DigitChars[(n % 10) + 1]>>

StartsWith(s, p) == Len(s) >= Len(p) /\ SubSeq(s, 1, Len(p)) = p

EndsWith(s, p) == Len(s) >= Len(p) /\ SubSeq(s, Len(s) - Len(p) + 1, Len(s)) = p

\* position of the first occurrence of sub in s, 0 when there is none
Find(s, sub) ==
    LET hits == {i \in 1..(Len(s) - Len(sub) + 1) : SubSeq(s, i, i + Len(sub) - 1) = sub}
    IN IF hits = {} THEN 0 ELSE CHOOSE i \in hits : \A j \in hits : i <= j

\* position of the last occurrence of sub in s, 0 when there is none
RFind(s, sub) ==
    LET hits == {i \in 1..(Len(s) - Len(sub) + 1) : SubSeq(s, i, i + Len(sub) - 1) = sub}
    IN IF hits = {} THEN 0 ELSE CHOOSE i \in hits : \A j \in hits : i >= j

\* `sub in s`
Contains(s, sub) == Find(s, sub) # 0

\* s.split(sep): every piece between occurrences of sep
RECURSIVE Split(_, _)
Split(s, sep) ==
    LET i == Find(s, sep)
    IN IF i = 0 THEN <<s>>
       ELSE <<SubSeq(s, 1, i - 1)>> \o Split(SubSeq(s, i + Len(sep), Len(s)), sep)

\* sep.join(parts)
RECURSIVE Join(_, _)
Join(parts, sep) ==
    IF Len(parts) = 0 THEN <<>>
    ELSE IF Len(parts) = 1 THEN parts[1]
    ELSE parts[1] \o sep \o Join(Tail(parts), sep)

\* s.replace(old, new), old non-empty: left to right, non-overlapping
RECURSIVE Replace(_, _, _)
Replace(s, old, new) ==
    LET i == Find(s, old)
    IN IF i = 0 THEN s
       ELSE SubSeq(s, 1, i - 1) \o new \o Replace(SubSeq(s, i + Len(old), Len(s)), old, new)

\* what reading a file opened in text mode yields: '\r\n' and '\r' become '\n'
RECURSIVE UniversalNewlines(_)
UniversalNewlines(s) ==
    IF Len(s) = 0 THEN s
    ELSE IF s[1] = "\r"
    THEN <<NL>> \o UniversalNewlines(IF Len(s) > 1 /\ s[2] = NL
                                     THEN SubSeq(s, 3, Len(s)) ELSE Tail(s))
    ELSE <<s[1]>> \o UniversalNewlines(Tail(s))

\* re.sub(r'_+', '_', s)
RECURSIVE CollapseUnderscores(_)
CollapseUnderscores(s) ==
    IF Len(s) < 2 THEN s
    ELSE IF s[1] = "_" /\ s[2] = "_" THEN CollapseUnderscores(Tail(s))
    ELSE <<s[1]>> \o CollapseUnderscores(Tail(s))

\* s.strip('_')
RECURSIVE StripUnderscores(_)
StripUnderscores(s) ==
    IF Len(s) = 0 THEN s
    ELSE IF s[1] = "_" THEN StripUnderscores(Tail(s))
    ELSE IF s[Len(s)] = "_" THEN StripUnderscores(SubSeq(s, 1, Len(s) - 1))
    ELSE s

\* s.rsplit('.', 1)[0]
RSplitDot(s) ==
    LET i == RFind(s, <<".">>)
    IN IF i = 0 THEN s ELSE SubSeq(s, 1, i - 1)

\* s.split('/', 1)[1], for s containing '/'
AfterFirstSlash(s) == SubSeq(s, Find(s, <<"/">>) + 1, Len(s))

\* s[:-3] if s.endswith('.md') else s
StripMd(s) == IF EndsWith(s, MD) THEN SubSeq(s, 1, Len(s) - 3) ELSE s

(***************************************************************************)
(* The file system under the store root.  fs is a record                   *)
(*   dirs  : the set of directories that exist (the root is <<>>),         *)
(*   files : note path -> content, for the note files that exist,          *)
(*   index : directory -> the parsed notes_index.json of that directory,   *)
(*           for the index files that exist.                               *)
(* An index is a sequence of entries in the insertion order of the JSON    *)
(* object; an entry is [title, filename, tags] plus, when present, the      *)
(* keys children_count and descendant_count ('children-count' and          *)
(* 'descendant-count' on disk).                                            *)
(***************************************************************************)
FS == [dirs |-> dirs, files |-> files, index |-> index]

\* the root directory, self.directory
Root == <<>>

\* Python's None as a result (get_note); never equal to a file content
None == <<"None">>

\* a parent/target_folder that is None or '' (both falsy in every test the code makes)
NoParent == <<>>

\* the relative paths that lead out of the store: self.directory / '/x' is '/x'
IsAbsolute(p) == Len(p) > 0 /\ p[1] = "/"

\* a relative path as pathlib keeps it: no empty and no '.' component
IsPure(p) ==
    \A i \in 1..Len(p) :
        /\ p[i] = "/" => (i < Len(p) /\ p[i + 1] # "/")
        /\ p[i] = "." => ~((i = 1 \/ p[i - 1] = "/") /\ (i = Len(p) \/ p[i + 1] = "/"))

\* a path that keeps the string it was built from
PurePath_kept(p) == p

\* the character i of p is a whole component '.'
IsDot(p, i) ==
    /\ p[i] = "."
    /\ i = 1 \/ p[i - 1] = "/"
    /\ i = Len(p) \/ p[i + 1] = "/"

\* the characters of p that pathlib keeps: no '.' component, and a '/' only
\* between two components that it keeps
KeptChars(p) ==
    {i \in 1..Len(p) :
        IF p[i] = "/"
        THEN /\ i < Len(p) /\ p[i + 1] # "/" /\ ~IsDot(p, i + 1)
             /\ \E j \in 1..(i - 1) : p[j] # "/" /\ ~IsDot(p, j)
        ELSE ~IsDot(p, i)}

\* Path(p) for a relative p: 'a/', 'a//b' and './a' name a, a/b and a
PurePath(p) ==
    IF IsAbsolute(p) \/ IsPure(p) THEN p
    ELSE [k \in 1..Cardinality(KeptChars(p)) |->
            p[CHOOSE i \in KeptChars(p) : Cardinality({j \in KeptChars(p) : j <= i}) = k]]

\* self.directory / rel, as the path relative to the root
PathJoin(dir, name) ==
    IF dir = Root THEN PurePath(name)
    ELSE IF name = <<>> THEN PurePath(dir)
    ELSE PurePath(dir \o <<"/">> \o name)

\* Path.exists() for a directory path
DirExists(fs, d) == IF IsAbsolute(d) THEN d = <<"/">> ELSE PurePath(d) \in fs.dirs

\* Path.is_file()
IsFile(fs, p) == PurePath(p) \in DOMAIN fs.files

\* Path.exists() for any path
PathExists(fs, p) ==
    IF IsAbsolute(p) THEN p = <<"/">>
    ELSE LET path == PurePath(p)
         IN path \in fs.dirs \/ path \in DOMAIN fs.files

\* the directory and all its ancestors, as mkdir(parents=True) creates them
RECURSIVE Ancestors(_)
Ancestors(d) ==
    IF d = Root THEN {Root}
    ELSE LET i == RFind(d, <<"/">>)
         IN {d} \cup Ancestors(IF i = 0 THEN Root ELSE SubSeq(d, 1, i - 1))

\* a mkdir that creates the last directory of the path only
Mkdir_last_only(fs, d) == [fs EXCEPT !.dirs = @ \cup {d}]

Mkdir(fs, d) == [fs EXCEPT !.dirs = @ \cup Ancestors(PurePath(d))]

\* the directory that directly contains path p
ParentOf(p) ==
    LET i == RFind(p, <<"/">>)
    IN IF i = 0 THEN Root ELSE SubSeq(p, 1, i - 1)

WriteFile(fs, p, content) ==
    [fs EXCEPT !.files = (PurePath(p) :> content) @@ @]

Unlink(fs, p) ==
    [fs EXCEPT !.files = [q \in (DOMAIN @) \ {PurePath(p)} |-> @[q]]]

\* _get_directory_for_note
get_directory_for_note(filename) ==
    IF Contains(filename, <<"/">>)
    THEN LET parts == Split(filename, <<"/">>)
         IN PurePath(Join(SubSeq(parts, 1, Len(parts) - 1), <<"/">>))
    ELSE Root

\* a normalisation that keeps the '.md' of a parent
normalize_parent_kept(parent) == parent

\* _normalize_parent
normalize_parent(parent) ==
    IF EndsWith(parent, MD) THEN SubSeq(parent, 1, Len(parent) - 3) ELSE parent

\* what fs.index holds for an index file that json.load cannot parse
CorruptIndex == <<[corrupt |-> TRUE]>>

NotJSON(text) == Len(text) = 1 /\ DOMAIN text[1] = {"corrupt"}

\* the error json.load raises on such a file, as the outcome of a call
JSONDecodeError == <<[error |-> "JSONDecodeError"]>>

\* a loader that never raises
load_index_lenient(fs, d) == FALSE

\* _load_index raises: the index file of d exists and cannot be parsed
load_index_raises(fs, d) ==
    LET path == PurePath(d)
    IN path \in DOMAIN fs.index /\ NotJSON(fs.index[path])

\* _load_index, where it does not raise
load_index(fs, d) ==
    LET path == PurePath(d)
    IN IF path \in DOMAIN fs.index /\ ~NotJSON(fs.index[path]) THEN fs.index[path] ELSE <<>>

\* the file system at the point where the running call raised: the steps of
\* the call that follow leave it as it is
Raise(fs) == [dirs |-> fs.dirs, files |-> fs.files, index |-> fs.index, raised |-> TRUE]

Raised(fs) == "raised" \in DOMAIN fs

\* the outcome of a call: what is on disk when it ends and its result, or,
\* if a step raised, the error, marked as raised
Result(fs, ret) ==
    IF Raised(fs)
    THEN [fs |-> [dirs |-> fs.dirs, files |-> fs.files, index |-> fs.index],
          ret |-> JSONDecodeError, raised |-> TRUE]
    ELSE [fs |-> fs, ret |-> ret]

\* _calculate_children_count
calculate_children_count(fs, note_filename) ==
    LET dir_name == StripMd(note_filename)
    IN IF ~DirExists(fs, dir_name) THEN 0
       ELSE Len(load_index(fs, dir_name))

\* the path _calculate_descendant_count recurses into for one child entry
full_child_path(dir_name, child_filename) ==
    IF Contains(child_filename, <<"/">>)
    THEN dir_name \o <<"/">> \o AfterFirstSlash(child_filename)
    ELSE dir_name \o <<"/">> \o child_filename

\* _calculate_descendant_count
RECURSIVE calculate_descendant_count(_, _)
RECURSIVE DescendantsOfChildren(_, _, _, _)
DescendantsOfChildren(fs, dir_name, child_index, i) ==
    IF i > Len(child_index) THEN 0
    ELSE calculate_descendant_count(fs, full_child_path(dir_name, child_index[i].filename))
         + DescendantsOfChildren(fs, dir_name, child_index, i + 1)

calculate_descendant_count(fs, note_filename) ==
    LET dir_name == StripMd(note_filename)
    IN IF ~DirExists(fs, dir_name) THEN 0
       ELSE LET child_index == load_index(fs, dir_name)
            IN Len(child_index) + DescendantsOfChildren(fs, dir_name, child_index, 1)

\* _calculate_children_count or _calculate_descendant_count raises: one of
\* the indexes they load on the way down cannot be parsed
RECURSIVE counts_raise(_, _)
counts_raise(fs, note_filename) ==
    LET dir_name == StripMd(note_filename)
    IN IF ~DirExists(fs, dir_name) THEN FALSE
       ELSE IF load_index_raises(fs, dir_name) THEN TRUE
       ELSE LET child_index == load_index(fs, dir_name)
            IN \E i \in 1..Len(child_index) :
                  counts_raise(fs, full_child_path(dir_name, child_index[i].filename))

\* an index entry without count keys
PlainEntry(data) ==
    [title |-> data.title, filename |-> data.filename, tags |-> data.tags]

\* an entry that always stores its count keys, zero included
WithCountsAlways(fs, data) ==
    [title |-> data.title, filename |-> data.filename, tags |-> data.tags,
     children_count |-> calculate_children_count(fs, data.filename),
     descendant_count |-> calculate_descendant_count(fs, data.filename)]

\* an entry with its count keys set from the tree (only if there are children)
WithCounts(fs, data) ==
    LET children_count == calculate_children_count(fs, data.filename)
        descendant_count == calculate_descendant_count(fs, data.filename)
    IN IF children_count > 0
       THEN [title |-> data.title, filename |-> data.filename, tags |-> data.tags,
             children_count |-> children_count, descendant_count |-> descendant_count]
       ELSE PlainEntry(data)

\* _save_index: recompute the counts of every entry, then write the file
save_index(fs, idx, d) ==
    IF Raised(fs) THEN fs
    ELSE IF \E i \in 1..Len(idx) : counts_raise(fs, idx[i].filename) THEN Raise(fs)
    ELSE
    LET counted == [i \in 1..Len(idx) |-> WithCounts(fs, idx[i])]
        made == Mkdir(fs, d)
    IN [made EXCEPT !.index = (PurePath(d) :> counted) @@ @]

\* path.unlink(), reached only if nothing raised before
unlink(fs, p) == IF Raised(fs) THEN fs ELSE Unlink(fs, p)

\* a lookup that takes the first entry whatever its filename
FirstEntry(idx, names) == IF Len(idx) > 0 THEN 1 ELSE 0

\* position of the first entry of idx whose filename is one of names, 0 if none
FirstWithFilename(idx, names) ==
    LET hits == {i \in 1..Len(idx) : idx[i].filename \in names}
    IN IF hits = {} THEN 0 ELSE CHOOSE i \in hits : \A j \in hits : i <= j

\* one level of the loop of _update_parent_counts (i counts from 0)
update_parent_level(fs, parent_parts, i) ==
    LET part == parent_parts[i + 1]
        parent_dir == IF i = 0 THEN Root ELSE Join(SubSeq(parent_parts, 1, i), <<"/">>)
        parent_index == load_index(fs, parent_dir)
        expected_filename ==
            IF i = 0 THEN part \o MD
            ELSE Join(SubSeq(parent_parts, 1, i + 1), <<"/">>) \o MD
        k == FirstWithFilename(parent_index, {expected_filename, part \o MD})
    IN IF Raised(fs) THEN fs
       ELSE IF load_index_raises(fs, parent_dir) THEN Raise(fs)
       ELSE IF k # 0 /\ parent_index[k].title # <<>>
       THEN (IF counts_raise(fs, parent_index[k].filename) THEN Raise(fs)
             ELSE save_index(fs, [parent_index EXCEPT ![k] = WithCounts(fs, @)],
                             parent_dir))
       ELSE fs

RECURSIVE update_parent_levels(_, _, _)
update_parent_levels(fs, parent_parts, i) ==
    IF i >= Len(parent_parts) THEN fs
    ELSE update_parent_levels(update_parent_level(fs, parent_parts, i), parent_parts, i + 1)

\* a store that never refreshes the ancestors' counts
update_parent_counts_skipped(fs, filename) == fs

\* a refresh that adds one to every stored count instead of recomputing it
update_parent_counts_incremented(fs, filename) ==
    IF ~Contains(filename, <<"/">>) THEN fs
    ELSE [fs EXCEPT !.index =
            [d \in DOMAIN fs.index |->
                [i \in 1..Len(fs.index[d]) |->
                    IF "children_count" \in DOMAIN fs.index[d][i]
                    THEN [fs.index[d][i] EXCEPT !.children_count = @ + 1,
                                                !.descendant_count = @ + 1]
                    ELSE fs.index[d][i]]]]

\* _update_parent_counts (count_delta is never read by the code)
update_parent_counts(fs, filename) ==
    IF Raised(fs) \/ ~Contains(filename, <<"/">>) THEN fs
    ELSE LET parts == Split(filename, <<"/">>)
         IN update_parent_levels(fs, SubSeq(parts, 1, Len(parts) - 1), 0)

\* `if parent:` / `if note_dir != self.directory:` / `if target_folder:` around
\* _update_parent_counts: the counts are refreshed for a note below the root
counts_below(folder, fs, filename) ==
    IF folder # Root THEN update_parent_counts(fs, filename) ELSE fs

(***************************************************************************)
(* Filenames and note bodies.                                              *)
(***************************************************************************)
\* a slug that keeps every run of '_'
title_to_filename_uncollapsed(title) ==
    LET lowered == [i \in 1..Len(title) |-> Lower(title[i])]
        replaced == [i \in 1..Len(title) |-> IF IsAlnum(lowered[i]) THEN lowered[i] ELSE "_"]
    IN StripUnderscores(replaced) \o MD

\* _title_to_filename
title_to_filename(title) ==
    LET lowered == [i \in 1..Len(title) |-> Lower(title[i])]
        replaced == [i \in 1..Len(title) |-> IF IsAlnum(lowered[i]) THEN lowered[i] ELSE "_"]
    IN StripUnderscores(CollapseUnderscores(replaced)) \o MD

\* a uniqueness loop that computes the suffixed name once and never re-checks it
unique_loop_unchecked(fs, base_filename, directory, filename, counter) ==
    IF PathExists(fs, PathJoin(directory, filename))
    THEN RSplitDot(base_filename) \o <<"_">> \o IntToStr(counter) \o MD
    ELSE filename

\* the while loop of _ensure_unique_filename(_in_dir)
RECURSIVE unique_loop(_, _, _, _, _)
unique_loop(fs, base_filename, directory, filename, counter) ==
    IF PathExists(fs, PathJoin(directory, filename))
    THEN unique_loop(fs, base_filename, directory,
                     RSplitDot(base_filename) \o <<"_">> \o IntToStr(counter) \o MD,
                     counter + 1)
    ELSE filename

\* _ensure_unique_filename_in_dir
ensure_unique_filename_in_dir(fs, base_filename, directory) ==
    unique_loop(fs, base_filename, directory, base_filename, 1)

\* _ensure_unique_filename
ensure_unique_filename(fs, base_filename) ==
    unique_loop(fs, base_filename, Root, base_filename, 1)

\* ', '.join(tags) if tags else ''
tags_str(tags) == Join(tags, CommaSpace)

\* a note body without the blank line after the tags line
note_content_no_blank_line(title, tags, content) ==
    TitlePrefix \o title \o <<NL>> \o TagsPrefix \o tags_str(tags) \o <<NL>> \o content

\* f'# {title}\nTags: {tags_str}\n\n{content}'
note_content(title, tags, content) ==
    TitlePrefix \o title \o <<NL>> \o TagsPrefix \o tags_str(tags) \o <<NL, NL>> \o content

\* an index that takes a second entry for a title it already holds
SetEntry_appended(idx, data) == Append(idx, data)

\* index[title] = data: replace the value of an existing key in place, else append
SetEntry(idx, data) ==
    LET hits == {i \in 1..Len(idx) : idx[i].title = data.title}
    IN IF hits = {} THEN Append(idx, data)
       ELSE [idx EXCEPT ![CHOOSE i \in hits : TRUE] = data]

\* a deletion that leaves the index as it was
DelEntry_kept(idx, title) == idx

\* del index[title]
DelEntry(idx, title) == SelectSeq(idx, LAMBDA e : e.title # title)

\* the index of d is loaded, given the entry and saved
set_and_save(fs, data, d) ==
    IF Raised(fs) THEN fs
    ELSE IF load_index_raises(fs, d) THEN Raise(fs)
    ELSE save_index(fs, SetEntry(load_index(fs, d), data), d)

(***************************************************************************)
(* The operations.  Each takes the file system and the call's arguments    *)
(* and yields [fs |-> the file system after the call, ret |-> the result]. *)
(***************************************************************************)
\* Storage.add_note; ret is the path of the new note relative to the root
add_note(fs, title, content, tags, parent0) ==
    LET parent == normalize_parent(parent0)
        base_filename == title_to_filename(title)
        made == IF parent # NoParent THEN Mkdir(fs, parent) ELSE fs
        filename == IF parent # NoParent
                    THEN ensure_unique_filename_in_dir(made, base_filename, parent)
                    ELSE ensure_unique_filename(made, base_filename)
        full_filename == IF parent # NoParent THEN parent \o <<"/">> \o filename ELSE filename
        target_dir == IF parent # NoParent THEN parent ELSE Root
        written == WriteFile(made, PathJoin(target_dir, filename),
                             note_content(title, tags, content))
        saved == set_and_save(written,
                              [title |-> title, filename |-> full_filename, tags |-> tags],
                              target_dir)
        counted == counts_below(parent, saved, full_filename)
    IN Result(counted, PathJoin(target_dir, filename))

\* the error open() and unlink() raise on a path that is a directory
IsADirectoryError == <<"IsADirectoryError">>

\* the error open() raises on a file that cannot be read or written
OSError == <<"OSError">>

\* the note files whose open() fails during the call that runs on fs
Unopenable(fs) == IF "unopenable" \in DOMAIN fs THEN fs.unopenable ELSE {}

\* the tree fs during a call in which open() fails on the files of F
WithFaults(fs, F) ==
    [dirs |-> fs.dirs, files |-> fs.files, index |-> fs.index, unopenable |-> F]

\* Storage.get_note
get_note(fs, filename) ==
    IF ~PathExists(fs, filename) THEN None
    ELSE IF ~IsFile(fs, filename) THEN IsADirectoryError
    ELSE IF PurePath(filename) \in Unopenable(fs) THEN OSError
    ELSE UniversalNewlines(fs.files[PurePath(filename)])

\* one item of the list list_notes returns
note_info(data) ==
    LET base == [filename |-> data.filename, title |-> data.title, tags |-> data.tags]
        with_children ==
            IF "children_count" \in DOMAIN data
            THEN [c \in {"children_count"} |-> data.children_count] @@ base
            ELSE base
    IN IF "descendant_count" \in DOMAIN data
       THEN [c \in {"descendant_count"} |-> data.descendant_count] @@ with_children
       ELSE with_children

\* a listing that shows the notes of the root whatever the parent
list_notes_of_root(fs, parent0) ==
    LET idx == load_index(fs, Root)
    IN [i \in 1..Len(idx) |-> note_info(idx[i])]

\* Storage.list_notes
list_notes(fs, parent0) ==
    LET parent == normalize_parent(parent0)
        idx == IF parent # NoParent
               THEN (IF ~DirExists(fs, parent) THEN <<>> ELSE load_index(fs, parent))
               ELSE load_index(fs, Root)
    IN IF (parent # NoParent => DirExists(fs, parent))
          /\ load_index_raises(fs, IF parent # NoParent THEN parent ELSE Root)
       THEN JSONDecodeError
       ELSE [i \in 1..Len(idx) |-> note_info(idx[i])]

\* what open(path, 'r') leaves on disk: the mode 'r' neither creates nor
\* truncates the file
OpenForReading(fs, p) == fs

\* what is on disk after Storage.get_note
get_note_tree(fs, filename) ==
    IF ~PathExists(fs, filename) THEN fs
    ELSE OpenForReading(fs, filename)

\* what is on disk after _load_index
load_index_tree(fs, d) ==
    IF PurePath(d) \notin DOMAIN fs.index THEN fs
    ELSE OpenForReading(fs, PathJoin(d, <<"notes_index.json">>))

\* a listing that makes the directory of the parent, as add_note does
list_notes_tree_making(fs, parent0) ==
    LET parent == normalize_parent(parent0)
    IN IF parent # NoParent THEN load_index_tree(Mkdir(fs, parent), parent)
       ELSE load_index_tree(fs, Root)

\* what is on disk after Storage.list_notes
list_notes_tree(fs, parent0) ==
    LET parent == normalize_parent(parent0)
    IN IF parent # NoParent
       THEN (IF ~DirExists(fs, parent) THEN fs ELSE load_index_tree(fs, parent))
       ELSE load_index_tree(fs, Root)

\* what Path.iterdir() yields for a directory: its note files, its
\* subdirectories and its index file
directory_contents(fs, directory) ==
    [notes |-> {p \in DOMAIN fs.files : ParentOf(p) = directory},
     subdirs |-> {d \in fs.dirs : d # Root /\ ParentOf(d) = directory},
     has_index |-> directory \in DOMAIN fs.index]

\* directory.rmdir(), with the index file unlinked first when there is one
Rmdir(fs, directory) ==
    [fs EXCEPT !.dirs = @ \ {directory},
               !.index = [d \in (DOMAIN @) \ {directory} |-> @[d]]]

\* a cleanup that never removes anything
cleanup_skipped(fs, directory) == fs

\* a cleanup that removes the directory whatever it holds
cleanup_unconditional(fs, directory) ==
    IF ~DirExists(fs, directory) \/ directory = Root THEN fs
    ELSE Rmdir(fs, directory)

\* a cleanup that looks at the note files and the index of the directory
\* only, and removes the directory with everything below it
cleanup_with_subdirs(fs, directory) ==
    IF Raised(fs) \/ ~DirExists(fs, directory) \/ directory = Root THEN fs
    ELSE LET c == directory_contents(fs, directory)
             below(p) == p = directory \/ StartsWith(p, directory \o <<"/">>)
         IN IF c.notes = {} /\ load_index(fs, directory) = <<>>
            THEN [fs EXCEPT !.dirs = {d \in @ : ~below(d)},
                            !.files = [p \in {q \in DOMAIN @ : ~below(q)} |-> @[p]],
                            !.index = [d \in {q \in DOMAIN @ : ~below(q)} |-> @[d]]]
            ELSE fs

\* _cleanup_empty_directory
cleanup_empty_directory(fs, directory) ==
    IF Raised(fs) THEN fs
    ELSE IF ~DirExists(fs, directory) \/ directory = Root THEN fs
    ELSE LET c == directory_contents(fs, directory)
         IN IF c.notes = {} /\ c.subdirs = {} /\ ~c.has_index THEN Rmdir(fs, directory)
            ELSE IF c.notes = {} /\ c.subdirs = {} /\ c.has_index
            THEN (IF load_index_raises(fs, directory) THEN Raise(fs)
                  ELSE IF load_index(fs, directory) = <<>> THEN Rmdir(fs, directory)
                  ELSE fs)
            ELSE fs

\* `if note_dir != self.directory:` around _cleanup_empty_directory
cleanup_below(source_dir, fs) ==
    IF source_dir # Root THEN cleanup_empty_directory(fs, source_dir) ELSE fs

\* a delete that does not look whether the file exists
delete_note_unchecked(fs, filename) == [fs |-> Unlink(fs, filename), ret |-> TRUE]

\* Storage.delete_note
delete_note(fs, filename) ==
    IF ~PathExists(fs, filename) THEN [fs |-> fs, ret |-> FALSE]
    ELSE
    LET note_dir == get_directory_for_note(filename)
        idx == load_index(fs, note_dir)
        k == FirstWithFilename(idx, {filename})
        \* `if title_to_delete:` is false for a missing entry and for the title ''
        saved == IF k # 0 /\ idx[k].title # <<>>
                 THEN save_index(fs, DelEntry(idx, idx[k].title), note_dir)
                 ELSE fs
        unlinked == unlink(saved, filename)
        counted == counts_below(note_dir, unlinked, filename)
        cleaned == cleanup_below(note_dir, counted)
    IN IF load_index_raises(fs, note_dir) THEN Result(Raise(fs), <<>>)
       ELSE IF ~IsFile(fs, filename) THEN Result(saved, IsADirectoryError)
       ELSE Result(cleaned, TRUE)

\* the error move_note raises
ValueError == <<"ValueError">>

\* the content move_note re-extracts from the source file (split on '\n')
move_extract_content(source_content) ==
    LET lines == Split(source_content, <<NL>>)
        content_start ==
            IF Len(lines) > 1 /\ StartsWith(lines[2], TagsPrefix)
            THEN (IF Len(lines) > 2 /\ lines[3] = <<>> THEN 3 ELSE 2)
            ELSE 1
    IN IF StartsWith(lines[1], TitlePrefix)
       THEN Join(SubSeq(lines, content_start + 1, Len(lines)), <<NL>>)
       ELSE source_content

\* a rewrite that looks at the notes of the root folder only
update_note_references_root_only(fs, old_filename, new_filename) ==
    [fs EXCEPT !.files =
        [p \in DOMAIN @ |->
            LET content == UniversalNewlines(@[p])
            IN IF /\ ~Contains(p, <<"/">>)
                  /\ p # new_filename
                  /\ Contains(content, old_filename)
               THEN Replace(content, old_filename, new_filename)
               ELSE @[p]]]

\* a rewrite that gives up on all files when one of them cannot be opened
update_note_references_aborting(fs, old_filename, new_filename) ==
    IF Raised(fs) \/ Unopenable(fs) \ {new_filename} # {} THEN fs
    ELSE
    [fs EXCEPT !.files =
        [p \in DOMAIN @ |->
            LET content == UniversalNewlines(@[p])
            IN IF p # new_filename /\ Contains(content, old_filename)
               THEN Replace(content, old_filename, new_filename)
               ELSE @[p]]]

\* _update_note_references: a file whose open() raises OSError is skipped
update_note_references(fs, old_filename, new_filename) ==
    IF Raised(fs) THEN fs
    ELSE
    [fs EXCEPT !.files =
        [p \in DOMAIN @ |->
            LET content == UniversalNewlines(@[p])
            IN IF /\ p # new_filename
                  /\ p \notin Unopenable(fs)
                  /\ Contains(content, old_filename)
               THEN Replace(content, old_filename, new_filename)
               ELSE @[p]]]

\* move_note from the write of the new file on: the note is written to its
\* new place, the target index and the source index are saved, the old
\* file is unlinked, the counts of the ancestors of both places are
\* refreshed, the source directory is cleaned up and the references to the
\* note are rewritten
move_written(made, filename, target_folder, new_filename_base, source_dir, source_index, source_title, source_tags, source_content) ==
    LET new_full_filename ==
            IF target_folder # NoParent THEN target_folder \o <<"/">> \o new_filename_base
            ELSE new_filename_base
        target_dir == IF target_folder # NoParent THEN target_folder ELSE Root
        new_content == note_content(source_title, source_tags,
                                    move_extract_content(source_content))
        written == WriteFile(made, PathJoin(target_dir, new_filename_base), new_content)
        target_saved == set_and_save(written,
                                     [title |-> source_title,
                                      filename |-> new_full_filename,
                                      tags |-> source_tags],
                                     target_dir)
        \* source_index is the index loaded before the target index was saved
        source_saved == save_index(target_saved, DelEntry(source_index, source_title),
                                   source_dir)
        unlinked == unlink(source_saved, filename)
        old_counted == counts_below(source_dir, unlinked, filename)
        new_counted == counts_below(target_folder, old_counted, new_full_filename)
        cleaned == cleanup_below(source_dir, new_counted)
    IN Result(update_note_references(cleaned, filename, new_full_filename),
              new_full_filename)

\* move_note from the no-op check on: the target directory is made and the
\* new filename is made unique in it
move_entry(fs, filename, target_folder, base_filename, source_dir, source_index, source_title, source_tags, source_content) ==
    LET potential_new_filename ==
            IF target_folder # NoParent THEN target_folder \o <<"/">> \o base_filename
            ELSE base_filename
        made == IF target_folder # NoParent THEN Mkdir(fs, target_folder) ELSE fs
        new_filename_base ==
            IF target_folder # NoParent
            THEN ensure_unique_filename_in_dir(made, base_filename, target_folder)
            ELSE ensure_unique_filename(made, base_filename)
    IN
    IF filename = potential_new_filename THEN [fs |-> fs, ret |-> filename]
    ELSE move_written(made, filename, target_folder, new_filename_base,
                      source_dir, source_index, source_title, source_tags, source_content)

\* Storage.move_note; ret is the new filename, or ValueError
move_note(fs, filename, target_folder0) ==
    IF ~PathExists(fs, filename) THEN [fs |-> fs, ret |-> ValueError]
    ELSE IF ~IsFile(fs, filename) THEN [fs |-> fs, ret |-> IsADirectoryError]
    ELSE IF PurePath(filename) \in Unopenable(fs) THEN [fs |-> fs, ret |-> OSError]
    ELSE
    LET source_dir == get_directory_for_note(filename)
        source_index == load_index(fs, source_dir)
        k == FirstWithFilename(source_index, {filename})
    IN
    IF load_index_raises(fs, source_dir) THEN Result(Raise(fs), <<>>)
    \* `if not source_title:` is true for a missing entry and for the title ''
    ELSE IF k = 0 \/ source_index[k].title = <<>> THEN [fs |-> fs, ret |-> ValueError]
    ELSE move_entry(fs, filename, normalize_parent(target_folder0),
                    title_to_filename(source_index[k].title),
                    source_dir, source_index, source_index[k].title, source_index[k].tags,
                    get_note(fs, filename))

\* Storage.update_note
update_note(fs, filename, content, tags) ==
    IF ~PathExists(fs, filename) THEN [fs |-> fs, ret |-> FALSE]
    ELSE
    LET note_dir == get_directory_for_note(filename)
        idx == load_index(fs, note_dir)
        k == FirstWithFilename(idx, {filename})
    IN
    IF load_index_raises(fs, note_dir) THEN Result(Raise(fs), <<>>)
    \* `if not title:` is true for a missing entry and for the title ''
    ELSE IF k = 0 \/ idx[k].title = <<>> THEN [fs |-> fs, ret |-> FALSE]
    ELSE
    LET written == WriteFile(fs, filename, note_content(idx[k].title, tags, content))
    IN Result(save_index(written, [idx EXCEPT ![k].tags = tags], note_dir), TRUE)

\* f.readlines() on the text s already read: the lines of s, each with its '\n'
RECURSIVE ReadLines(_)
ReadLines(s) ==
    LET i == Find(s, <<NL>>)
    IN IF Len(s) = 0 THEN <<>>
       ELSE IF i = 0 THEN <<s>>
       ELSE <<SubSeq(s, 1, i)>> \o ReadLines(SubSeq(s, i + 1, Len(s)))

\* line.strip() == ''
IsBlank(line) == \A i \in 1..Len(line) : line[i] \in {" ", NL, "\t", "\r"}

\* the content add_tags and remove_tags re-extract from the file (readlines)
tags_extract_content(text) ==
    LET lines == ReadLines(UniversalNewlines(text))
        content_start ==
            IF Len(lines) > 1 /\ StartsWith(lines[2], TagsPrefix)
            THEN (IF Len(lines) > 2 /\ IsBlank(lines[3]) THEN 3 ELSE 2)
            ELSE 1
    IN Join(SubSeq(lines, content_start + 1, Len(lines)), <<>>)

\* the order of characters sorted() compares strings by (ASCII)
AsciiOrder == <<" ", ",", "-", ".", "/">> \o DigitChars \o UpperAlpha \o <<"_">> \o LowerAlpha

Ord(c) == CHOOSE i \in 1..Len(AsciiOrder) : AsciiOrder[i] = c

\* s < t for Python strings
RECURSIVE StrLess(_, _)
StrLess(s, t) ==
    IF Len(t) = 0 THEN FALSE
    ELSE IF Len(s) = 0 THEN TRUE
    ELSE IF s[1] = t[1] THEN StrLess(Tail(s), Tail(t))
    ELSE Ord(s[1]) < Ord(t[1])

\* the elements of a set of strings in descending order
RECURSIVE SortedSet_descending(_)
SortedSet_descending(S) ==
    IF S = {} THEN <<>>
    ELSE LET m == CHOOSE x \in S : \A y \in S \ {x} : StrLess(y, x)
         IN <<m>> \o SortedSet_descending(S \ {m})

\* sorted(list(set(tags)))
RECURSIVE SortedSet(_)
SortedSet(S) ==
    IF S = {} THEN <<>>
    ELSE LET m == CHOOSE x \in S : \A y \in S \ {x} : StrLess(x, y)
         IN <<m>> \o SortedSet(S \ {m})

SeqRange(s) == {s[i] : i \in 1..Len(s)}

\* a rewrite that sorts the tags it is given
retag_sorted(fs, filename, updated_tags, note_dir, idx, k) ==
    LET sorted == SortedSet(SeqRange(updated_tags))
        content == tags_extract_content(fs.files[PurePath(filename)])
        written == WriteFile(fs, filename, note_content(idx[k].title, sorted, content))
    IN Result(save_index(written, [idx EXCEPT ![k].tags = sorted], note_dir), TRUE)

\* a rewrite that gives the new tags to every entry of the index
retag_all(fs, filename, updated_tags, note_dir, idx, k) ==
    LET content == tags_extract_content(fs.files[PurePath(filename)])
        written == WriteFile(fs, filename, note_content(idx[k].title, updated_tags, content))
    IN Result(save_index(written, [i \in 1..Len(idx) |-> [idx[i] EXCEPT !.tags = updated_tags]],
                         note_dir), TRUE)

\* the part add_tags and remove_tags share: rewrite the header over the content
retag(fs, filename, updated_tags, note_dir, idx, k) ==
    LET content == tags_extract_content(fs.files[PurePath(filename)])
        written == WriteFile(fs, filename, note_content(idx[k].title, updated_tags, content))
    IN Result(save_index(written, [idx EXCEPT ![k].tags = updated_tags], note_dir), TRUE)

\* Storage.add_tags
add_tags(fs, filename, tags_to_add) ==
    IF ~PathExists(fs, filename) THEN [fs |-> fs, ret |-> FALSE]
    ELSE
    LET note_dir == get_directory_for_note(filename)
        idx == load_index(fs, note_dir)
        k == FirstWithFilename(idx, {filename})
    IN IF load_index_raises(fs, note_dir) THEN Result(Raise(fs), <<>>)
       ELSE IF k = 0 \/ idx[k].title = <<>> THEN [fs |-> fs, ret |-> FALSE]
       ELSE retag(fs, filename, SortedSet(SeqRange(idx[k].tags \o tags_to_add)),
                  note_dir, idx, k)

\* Storage.remove_tags
remove_tags(fs, filename, tags_to_remove) ==
    IF ~PathExists(fs, filename) THEN [fs |-> fs, ret |-> FALSE]
    ELSE
    LET note_dir == get_directory_for_note(filename)
        idx == load_index(fs, note_dir)
        k == FirstWithFilename(idx, {filename})
    IN IF load_index_raises(fs, note_dir) THEN Result(Raise(fs), <<>>)
       ELSE IF k = 0 \/ idx[k].title = <<>> THEN [fs |-> fs, ret |-> FALSE]
       ELSE retag(fs, filename,
                  SelectSeq(idx[k].tags, LAMBDA tag : tag \notin SeqRange(tags_to_remove)),
                  note_dir, idx, k)

(***************************************************************************)
(* The store as a state machine: the state is the tree on disk, a step is  *)
(* one call of an operation of Storage.                                    *)
(***************************************************************************)
\* the most note files on disk at once
MaxNotes == 3

Titles == {<<"A">>, <<"b">>}

Parents == {NoParent, <<"a">>, <<"a", "/", "b">>, <<"a", "/", "b", "/", "a">>}

Contents == {<<"x">>}

TagLists == {<<>>}

\* a filename no note ever has
Missing == <<"z", ".", "m", "d">>

\* Storage.__init__ on an empty directory: the root exists and nothing else
\* no call of delete_note or move_note is in progress
Idle == [op |-> "none"]

Init ==
    /\ dirs = {Root}
    /\ files = <<>>
    /\ index = <<>>
    /\ call = Idle

\* a whole call, from an idle store to an idle store
Apply(fs) ==
    /\ call = Idle
    /\ dirs' = fs.dirs
    /\ files' = fs.files
    /\ index' = fs.index
    /\ call' = call

\* a call of add_note with arguments from the given sets
AddNoteOf(titles, parents, contents, taglists, max) ==
    \E title \in titles, parent \in parents, content \in contents, tags \in taglists :
        /\ Cardinality(DOMAIN files) < max
        /\ Apply(add_note(FS, title, content, tags, parent).fs)

\* a call of delete_note on a note on disk or on a missing filename
DeleteNote ==
    \E filename \in DOMAIN files \cup {Missing} :
        Apply(delete_note(FS, filename).fs)

\* a call of move_note with a target folder from the given set
MoveNoteOf(parents) ==
    \E filename \in DOMAIN files \cup {Missing}, target_folder \in parents :
        Apply(move_note(FS, filename, target_folder).fs)

AddNote == AddNoteOf(Titles, Parents, Contents, TagLists, MaxNotes)

MoveNote == MoveNoteOf(Parents)

Next == AddNote \/ DeleteNote \/ MoveNote

\* any sequence of add_note, delete_note and move_note calls, in a tree up to
\* four levels deep
Spec == Init /\ [][Next]_vars

(***************************************************************************)
(* The same store with every mutating operation and with varied contents   *)
(* and tags, in a tree two levels deep.                                    *)
(***************************************************************************)
\* the most note files on disk at once in TextSpec
MaxTextNotes == 2

TextTitles == {<<"A">>, <<"b">>}

TextParents == {NoParent, <<"a">>}

\* empty, a leading blank line before a line, a line that looks like a tags line
TextContents == {<<>>, <<NL, "x">>, TagsPrefix \o <<"x">>}

TextTagLists == {<<>>, <<<<"t">>>>, <<<<"u">>, <<"t">>>>}

TextAddNote == AddNoteOf(TextTitles, TextParents, TextContents, TextTagLists, MaxTextNotes)

TextMoveNote == MoveNoteOf(TextParents)

UpdateNote ==
    \E filename \in DOMAIN files \cup {Missing}, content \in TextContents,
       tags \in TextTagLists :
        Apply(update_note(FS, filename, content, tags).fs)

AddTags ==
    \E filename \in DOMAIN files \cup {Missing}, tags_to_add \in TextTagLists :
        Apply(add_tags(FS, filename, tags_to_add).fs)

RemoveTags ==
    \E filename \in DOMAIN files \cup {Missing}, tags_to_remove \in TextTagLists :
        Apply(remove_tags(FS, filename, tags_to_remove).fs)

TextNext ==
    TextAddNote \/ DeleteNote \/ TextMoveNote \/ UpdateNote \/ AddTags \/ RemoveTags

TextSpec == Init /\ [][TextNext]_vars

(***************************************************************************)
(* The same store with a title of two lines and a content with a carriage  *)
(* return.  A move or a change of tags of a note with a two-line title      *)
(* lengthens its file, so these are taken only on files of bounded length. *)
(***************************************************************************)
\* the most note files on disk at once in LineSpec
MaxLineNotes == 2

\* the longest file LineSpec moves
MaxFileLen == 30

LineTitles == {<<"A">>, <<"A", NL, "b">>}

LineContents == {<<"x">>, <<"x", "\r", "y">>}

LineTagLists == {<<<<"t">>>>}

LineAddNote == AddNoteOf(LineTitles, TextParents, LineContents, LineTagLists, MaxLineNotes)

LineMoveNote ==
    \E filename \in DOMAIN files \cup {Missing}, target_folder \in TextParents :
        /\ filename \in DOMAIN files => Len(files[filename]) <= MaxFileLen
        /\ Apply(move_note(FS, filename, target_folder).fs)

LineAddTags ==
    \E filename \in DOMAIN files \cup {Missing}, tags_to_add \in LineTagLists :
        /\ filename \in DOMAIN files => Len(files[filename]) <= MaxFileLen
        /\ Apply(add_tags(FS, filename, tags_to_add).fs)

LineRemoveTags ==
    \E filename \in DOMAIN files \cup {Missing}, tags_to_remove \in LineTagLists :
        /\ filename \in DOMAIN files => Len(files[filename]) <= MaxFileLen
        /\ Apply(remove_tags(FS, filename, tags_to_remove).fs)

LineNext == LineAddNote \/ DeleteNote \/ LineMoveNote \/ LineAddTags \/ LineRemoveTags

LineSpec == Init /\ [][LineNext]_vars

(***************************************************************************)
(* The same store with notes whose content names other notes, for the      *)
(* rewrite of references by move_note.  The rewrite can lengthen the files  *)
(* that name the moved note, so moves are taken only while every file is   *)
(* of bounded length.                                                      *)
(***************************************************************************)
\* the most note files on disk at once in RefSpec
MaxRefNotes == 2

RefTitles == {<<"A">>, <<"b">>}

RefParents == {NoParent, <<"a">>, <<"a", "/", "b">>}

\* a reference to the root note b.md, and to the note a/b.md in the folder a
RefContents == {<<"b", ".", "m", "d">>, <<"a", "/", "b", ".", "m", "d">>}

RefAddNote == AddNoteOf(RefTitles, RefParents, RefContents, TagLists, MaxRefNotes)

RefMoveNote ==
    \E filename \in DOMAIN files \cup {Missing}, target_folder \in RefParents :
        /\ \A p \in DOMAIN files : Len(files[p]) <= MaxFileLen
        /\ Apply(move_note(FS, filename, target_folder).fs)

RefNext == RefAddNote \/ DeleteNote \/ RefMoveNote

RefSpec == Init /\ [][RefNext]_vars

(***************************************************************************)
(* The same store with three notes that can name the root note b.md, and   *)
(* with moves during which open() fails on some of the note files.         *)
(***************************************************************************)
\* the most note files on disk at once in FaultSpec
MaxFaultNotes == 3

\* the longest note file on disk before a call of move_note in FaultSpec: a
\* note that names b.md or a/b.md
MaxFaultLen == 18

\* every note is added with a reference to the root note b.md as its content
FaultAddNote ==
    AddNoteOf(RefTitles, TextParents, {<<"b", ".", "m", "d">>}, TagLists, MaxFaultNotes)

\* a call of move_note during which the note files of F cannot be opened
FaultMoveNote ==
    \E filename \in DOMAIN files \cup {Missing}, target_folder \in TextParents,
       F \in SUBSET DOMAIN files :
        /\ \A p \in DOMAIN files : Len(files[p]) <= MaxFaultLen
        /\ Apply(move_note(WithFaults(FS, F), filename, target_folder).fs)

FaultNext == FaultAddNote \/ DeleteNote \/ FaultMoveNote

FaultSpec == Init /\ [][FaultNext]_vars

(***************************************************************************)
(* The store with one note at a time in the root, under every short title  *)
(* over letters of both cases, a digit, a space, a punctuation mark and    *)
(* '_', for the slug of a title.                                           *)
(***************************************************************************)
\* the most note files on disk at once in SlugSpec
MaxSlugNotes == 1

\* the longest title of SlugSpec, but for the one of the test suite
MaxTitleLen == 3

SlugChars == {"A", "b", "3", " ", "$", "_"}

\* the title of test_add_note_special_chars
SpecialCharsTitle ==
    <<"N","o","t","e"," ","w","i","t","h"," ","$","p","e","c","i","a","l"," ",
      "C","h","@","r","s"," ","&"," ","N","u","m","b","3","r","s","!">>

SlugTitles ==
    UNION {[1..n -> SlugChars] : n \in 1..MaxTitleLen} \cup {SpecialCharsTitle}

SlugAddNote == AddNoteOf(SlugTitles, {NoParent}, Contents, TagLists, MaxSlugNotes)

SlugNext == SlugAddNote \/ DeleteNote

SlugSpec == Init /\ [][SlugNext]_vars

(***************************************************************************)
(* The store with index files that get damaged on disk: besides the calls  *)
(* of add_note, delete_note and move_note, a step can turn the index file  *)
(* of a directory into one that json.load cannot parse.  A call that fails  *)
(* after it has written a note file leaves that file behind, so calls that *)
(* write are taken only while few files are on disk.                       *)
(***************************************************************************)
\* the most note files on disk before a call that writes one, in CorruptSpec
MaxCorruptNotes == 2

CorruptParents == {NoParent, <<"a">>, <<"a", "/", "b">>}

CorruptAddNote == AddNoteOf(Titles, CorruptParents, Contents, TagLists, MaxCorruptNotes)

CorruptMoveNote ==
    \E filename \in DOMAIN files \cup {Missing}, target_folder \in CorruptParents :
        /\ Cardinality(DOMAIN files) <= MaxCorruptNotes
        /\ Apply(move_note(FS, filename, target_folder).fs)

\* the index file of a directory is overwritten with text that is not JSON
DamageIndex ==
    \E d \in DOMAIN index :
        /\ ~load_index_raises(FS, d)
        /\ index' = [index EXCEPT ![d] = CorruptIndex]
        /\ UNCHANGED <<dirs, files, call>>

CorruptNext == CorruptAddNote \/ DeleteNote \/ CorruptMoveNote \/ DamageIndex

CorruptSpec == Init /\ [][CorruptNext]_vars

(***************************************************************************)
(* The store with a note of the empty title.  Its slug is empty, so its    *)
(* file is '.md'; it is added to the root, next to titled notes in the     *)
(* root and in the folder a.                                               *)
(***************************************************************************)
\* the most notes on disk before a call of add_note, in EmptySpec
MaxEmptyNotes == 2

EmptyTitle == <<>>

EmptyAddNote == AddNoteOf({EmptyTitle}, {NoParent}, Contents, TagLists, MaxEmptyNotes)

EmptyAddTitled == AddNoteOf(Titles, TextParents, Contents, TagLists, MaxEmptyNotes)

EmptyNext == EmptyAddNote \/ EmptyAddTitled \/ DeleteNote \/ TextMoveNote

EmptySpec == Init /\ [][EmptyNext]_vars

(***************************************************************************)
(* The same store with a note whose title and tag are the filename of      *)
(* another note, the root note b.md, so that the header of its file names  *)
(* that note.                                                              *)
(***************************************************************************)
\* the most note files on disk at once in HeaderSpec
MaxHeaderNotes == 2

\* the titles b and b.md, with no tag or with the tag b.md
HeaderAddNote ==
    AddNoteOf({<<"b">>, <<"b", ".", "m", "d">>}, TextParents, Contents,
              {<<>>, <<<<"b", ".", "m", "d">>>>}, MaxHeaderNotes)

HeaderMoveNote ==
    \E filename \in DOMAIN files \cup {Missing}, target_folder \in TextParents :
        /\ \A p \in DOMAIN files : Len(files[p]) <= MaxFileLen
        /\ Apply(move_note(FS, filename, target_folder).fs)

HeaderNext == HeaderAddNote \/ DeleteNote \/ HeaderMoveNote

HeaderSpec == Init /\ [][HeaderNext]_vars

(***************************************************************************)
(* The store with the two reading operations next to add_note, delete_note *)
(* and move_note.  get_note is called on notes, on directories and on      *)
(* paths that do not exist, list_notes on folders that exist, on folders   *)
(* that do not, and on a parent written with '.md'.                        *)
(***************************************************************************)
\* the most note files on disk at once in ReadSpec
MaxReadNotes == 3

\* filenames of no note: missing in the root, in the folder a and in a missing
\* folder, and the paths of two folders
ReadFilenames ==
    {Missing, <<"a", "/", "z", ".", "m", "d">>, <<"q", "/", "z", ".", "m", "d">>,
     <<"a">>, <<"a", "/", "b">>}

ReadParents ==
    TextParents \cup {<<"a", ".", "m", "d">>, <<"a", "/", "b">>, <<"q">>, <<"a", "/", "q">>}

ReadAddNote == AddNoteOf(Titles, TextParents, Contents, TagLists, MaxReadNotes)

GetNote ==
    \E filename \in DOMAIN files \cup ReadFilenames :
        Apply(get_note_tree(FS, filename))

ListNotes ==
    \E parent \in ReadParents :
        Apply(list_notes_tree(FS, parent))

ReadNext == ReadAddNote \/ DeleteNote \/ TextMoveNote \/ GetNote \/ ListNotes

ReadSpec == Init /\ [][ReadNext]_vars

(***************************************************************************)
(* delete_note and move_note statement by statement.  `call` holds the     *)
(* call in progress: its arguments, the local variables the later          *)
(* statements read, the position `at` in the statement groups of the       *)
(* method, and the tree the call started on.  Storage is used by one       *)
(* caller at a time, so nothing else runs while a call is in progress.     *)
(***************************************************************************)
\* the most notes on disk before a call of add_note, in StepSpec
MaxStepNotes == 2

StepParents == {NoParent, <<"a">>, <<"a", "/", "b">>}

\* cleanup placed ahead of the save that removes the entry
StepsOf_cleanup_first(op) ==
    IF op = "delete_note"
    THEN <<"cleanup", "save", "unlink", "counts">>
    ELSE <<"write", "save_target", "cleanup", "save_source", "unlink", "counts",
           "references">>

\* the old file deleted before the new one is written
StepsOf_unlink_first(op) ==
    IF op = "delete_note"
    THEN <<"save", "unlink", "counts", "cleanup">>
    ELSE <<"unlink", "write", "save_target", "save_source", "counts", "cleanup",
           "references">>

\* the statement groups of the two methods after their checks, in code order
StepsOf(op) ==
    IF op = "delete_note"
    THEN <<"save", "unlink", "counts", "cleanup">>
    ELSE <<"write", "save_target", "save_source", "unlink", "counts", "cleanup",
           "references">>

\* the call in progress is about to run the named statements of the method
InStep(op, name) ==
    /\ call.op = op
    /\ StepsOf(op)[call.at] = name

\* the named statements have run and left the tree fs and the locals c
StepTo(fs, c) ==
    /\ dirs' = fs.dirs
    /\ files' = fs.files
    /\ index' = fs.index
    /\ call' = IF c.at = Len(StepsOf(c.op)) THEN Idle ELSE [c EXCEPT !.at = @ + 1]

StepAddNote == AddNoteOf(Titles, StepParents, Contents, TagLists, MaxStepNotes)

\* delete_note up to the choice of the index directory; a call on a missing
\* path returns False there and changes nothing
DeleteStart ==
    \E filename \in DOMAIN files :
        /\ call = Idle
        /\ call' = [op |-> "delete_note", at |-> 1, filename |-> filename,
                    start |-> FS]
        /\ UNCHANGED <<dirs, files, index>>

\* the lookup of the title, `del index[title_to_delete]` and the save
DeleteSave ==
    /\ InStep("delete_note", "save")
    /\ LET note_dir == get_directory_for_note(call.filename)
           idx == load_index(FS, note_dir)
           k == FirstWithFilename(idx, {call.filename})
       IN StepTo(IF k # 0 /\ idx[k].title # <<>>
                 THEN save_index(FS, DelEntry(idx, idx[k].title), note_dir)
                 ELSE FS, call)

\* note_path.unlink()
DeleteUnlink ==
    /\ InStep("delete_note", "unlink")
    /\ StepTo(Unlink(FS, call.filename), call)

\* _update_parent_counts for a note below the root
DeleteCounts ==
    /\ InStep("delete_note", "counts")
    /\ StepTo(IF get_directory_for_note(call.filename) # Root
              THEN update_parent_counts(FS, call.filename) ELSE FS, call)

\* _cleanup_empty_directory for a note below the root, then `return True`
DeleteCleanup ==
    /\ InStep("delete_note", "cleanup")
    /\ LET note_dir == get_directory_for_note(call.filename)
       IN StepTo(IF note_dir # Root THEN cleanup_empty_directory(FS, note_dir)
                 ELSE FS, call)

\* move_note up to the no-op check: the note is read, its entry is found in
\* the source index and the target folder is normalised; a call that raises or
\* returns there changes nothing
MoveStart ==
    \E filename \in DOMAIN files, target_folder0 \in StepParents :
        LET source_dir == get_directory_for_note(filename)
            source_index == load_index(FS, source_dir)
            k == FirstWithFilename(source_index, {filename})
            target_folder == normalize_parent(target_folder0)
        IN /\ call = Idle
           /\ k # 0
           /\ source_index[k].title # <<>>
           /\ filename #
                  (IF target_folder # NoParent
                   THEN target_folder \o <<"/">> \o title_to_filename(source_index[k].title)
                   ELSE title_to_filename(source_index[k].title))
           /\ call' = [op |-> "move_note", at |-> 1, filename |-> filename,
                       target_folder0 |-> target_folder0,
                       target_folder |-> target_folder,
                       source_content |-> get_note(FS, filename),
                       source_index |-> source_index,
                       source_title |-> source_index[k].title,
                       source_tags |-> source_index[k].tags,
                       new_full_filename |-> <<>>,
                       start |-> FS]
           /\ UNCHANGED <<dirs, files, index>>

\* the directory of the target folder
StepTargetDir == IF call.target_folder # NoParent THEN call.target_folder ELSE Root

\* mkdir of the target folder, the unique filename and the write of the note
MoveWrite ==
    /\ InStep("move_note", "write")
    /\ LET base_filename == title_to_filename(call.source_title)
           made == IF call.target_folder # NoParent THEN Mkdir(FS, call.target_folder)
                   ELSE FS
           new_filename_base ==
               IF call.target_folder # NoParent
               THEN ensure_unique_filename_in_dir(made, base_filename, call.target_folder)
               ELSE ensure_unique_filename(made, base_filename)
           new_full_filename ==
               IF call.target_folder # NoParent
               THEN call.target_folder \o <<"/">> \o new_filename_base
               ELSE new_filename_base
           new_content == note_content(call.source_title, call.source_tags,
                                       move_extract_content(call.source_content))
       IN StepTo(WriteFile(made, PathJoin(StepTargetDir, new_filename_base), new_content),
                 [call EXCEPT !.new_full_filename = new_full_filename])

\* the target index is loaded, given the entry and saved
MoveSaveTarget ==
    /\ InStep("move_note", "save_target")
    /\ StepTo(save_index(FS, SetEntry(load_index(FS, StepTargetDir),
                                      [title |-> call.source_title,
                                       filename |-> call.new_full_filename,
                                       tags |-> call.source_tags]),
                         StepTargetDir), call)

\* `del source_index[source_title]` on the index loaded at the start, and the save
MoveSaveSource ==
    /\ InStep("move_note", "save_source")
    /\ StepTo(save_index(FS, DelEntry(call.source_index, call.source_title),
                         get_directory_for_note(call.filename)), call)

\* source_path.unlink()
MoveUnlink ==
    /\ InStep("move_note", "unlink")
    /\ StepTo(Unlink(FS, call.filename), call)

\* _update_parent_counts for the old and for the new place
MoveCounts ==
    /\ InStep("move_note", "counts")
    /\ LET old_counted == IF get_directory_for_note(call.filename) # Root
                          THEN update_parent_counts(FS, call.filename) ELSE FS
       IN StepTo(IF call.target_folder # NoParent
                 THEN update_parent_counts(old_counted, call.new_full_filename)
                 ELSE old_counted, call)

\* _cleanup_empty_directory for a source below the root
MoveCleanup ==
    /\ InStep("move_note", "cleanup")
    /\ LET source_dir == get_directory_for_note(call.filename)
       IN StepTo(IF source_dir # Root THEN cleanup_empty_directory(FS, source_dir)
                 ELSE FS, call)

\* _update_note_references, then `return new_full_filename`
MoveReferences ==
    /\ InStep("move_note", "references")
    /\ StepTo(update_note_references(FS, call.filename, call.new_full_filename), call)

StepNext ==
    \/ StepAddNote
    \/ DeleteStart
    \/ DeleteSave
    \/ DeleteUnlink
    \/ DeleteCounts
    \/ DeleteCleanup
    \/ MoveStart
    \/ MoveWrite
    \/ MoveSaveTarget
    \/ MoveSaveSource
    \/ MoveUnlink
    \/ MoveCounts
    \/ MoveCleanup
    \/ MoveReferences

StepSpec == Init /\ [][StepNext]_vars

(***************************************************************************)
(* Counts.                                                                 *)
(***************************************************************************)
\* every index entry on disk, with the directory whose index holds it
AllEntries == UNION {{<<d, i>> : i \in 1..Len(index[d])} : d \in DOMAIN index}

EntryAt(di) == index[di[1]][di[2]]

\* the number of entries in the index of directory d (0 when it has none)
IndexSize(d) == IF d \in DOMAIN index THEN Len(index[d]) ELSE 0

\* the directory named like the note's filename without '.md'
ChildDir(filename) == SubSeq(filename, 1, Len(filename) - Len(MD))

RECURSIVE SubtreeSize(_)
RECURSIVE SubtreeOfEntries(_, _)
SubtreeOfEntries(d, i) ==
    IF i > IndexSize(d) THEN 0
    ELSE SubtreeSize(ChildDir(index[d][i].filename)) + SubtreeOfEntries(d, i + 1)

SubtreeSize(d) == IndexSize(d) + SubtreeOfEntries(d, 1)

\* C2: every stored descendant-count equals the number of indexed notes in the
\* whole subtree under the note's child directory (its children count plus the
\* descendant counts of each child), at any nesting depth.
C2_DescendantCount ==
    \A di \in AllEntries :
        LET e == EntryAt(di)
            n == SubtreeSize(ChildDir(e.filename))
        IN /\ n > 0 => "descendant_count" \in DOMAIN e
           /\ "descendant_count" \in DOMAIN e => e.descendant_count = n

\* C3: every note file on disk has exactly one index entry, and that entry is
\* in the index of the directory that directly contains the file.
C3_OneEntryPerFile ==
    \A p \in DOMAIN files :
        LET holders == {di \in AllEntries : EntryAt(di).filename = p}
        IN /\ Cardinality(holders) = 1
           /\ \A di \in holders : di[1] = ParentOf(p)

(***************************************************************************)
(* Moves.                                                                  *)
(***************************************************************************)
\* the entries of directory d's index, in the file system fs, that name filename
EntriesNaming(fs, d, filename) ==
    {i \in 1..Len(load_index(fs, d)) : load_index(fs, d)[i].filename = filename}

\* the note files that have an entry in the index of their own directory
Indexed == {p \in DOMAIN files : EntriesNaming(FS, ParentOf(p), p) # {}}

\* the first entry naming an indexed note, as the operations look it up
EntryOf(p) ==
    LET idx == load_index(FS, ParentOf(p))
    IN idx[CHOOSE i \in EntriesNaming(FS, ParentOf(p), p) :
               \A j \in EntriesNaming(FS, ParentOf(p), p) : i <= j]

\* C4: after move_note returns a new filename different from the old one, the
\* destination directory's index has an entry with the new filename carrying
\* the source's title and tags, and the source directory's index has no entry
\* with the old filename -- for every source directory and target folder, the
\* folder the note already lives in included.
C4_MoveUpdatesIndexes ==
    [][\A filename \in Indexed, target_folder \in Parents :
          LET r == move_note(FS, filename, target_folder)
          IN (r.ret # ValueError /\ r.ret # filename /\ Apply(r.fs))
             => /\ \E i \in EntriesNaming(r.fs, ParentOf(r.ret), r.ret) :
                     LET e == load_index(r.fs, ParentOf(r.ret))[i]
                     IN e.title = EntryOf(filename).title /\ e.tags = EntryOf(filename).tags
                /\ EntriesNaming(r.fs, ParentOf(filename), filename) = {}]_vars

\* C5: for every indexed note, move_note with the directory the note already
\* lives in as target folder returns the same filename and changes no file,
\* index or directory.
C5_MoveToOwnFolderIsNoOp ==
    [][\A filename \in Indexed :
          LET r == move_note(FS, filename, ParentOf(filename))
          IN Apply(r.fs) => (r.ret = filename /\ UNCHANGED vars)]_vars

\* the last component of a path
BaseName(p) == SubSeq(p, RFind(p, <<"/">>) + 1, Len(p))

\* '# ' + title, a newline, 'Tags: ' + the tags joined by ', ', a blank line
Header(title, tags) ==
    <<"#", " ">> \o title \o <<NL>> \o <<"T", "a", "g", "s", ":", " ">>
    \o Join(tags, <<",", " ">>) \o <<NL, NL>>

\* the content of the indexed note p as get_note shows it: what follows the
\* header of the entry's title and tags
ContentOf(p) ==
    LET text == get_note(FS, p)
        n == Len(Header(EntryOf(p).title, EntryOf(p).tags))
    IN SubSeq(text, n + 1, Len(text))

\* C6: after a successful move_note that changes the filename, get_note of the
\* returned filename yields the header with the same title and tags followed by
\* exactly the content the note had before the move, and get_note of the old
\* filename returns None.
C6_MovePreservesNote ==
    \A filename \in Indexed, target_folder \in TextParents :
        LET r == move_note(FS, filename, target_folder)
        IN (r.ret # ValueError /\ r.ret # filename)
           => /\ get_note(r.fs, r.ret)
                   = Header(EntryOf(filename).title, EntryOf(filename).tags)
                     \o ContentOf(filename)
              /\ get_note(r.fs, filename) = None

(***************************************************************************)
(* Filenames.                                                              *)
(***************************************************************************)
\* slug(title)_n.md
Suffixed(title, n) == RSplitDot(title_to_filename(title)) \o <<"_">> \o IntToStr(n) \o MD

\* the name the claim expects in directory d: slug(title).md when no file of
\* that name exists there, else slug(title)_n.md for the smallest free n >= 1
ExpectedFilename(title, d) ==
    LET taken(name) == PathJoin(d, name) \in DOMAIN files
        free == {n \in 1..(Cardinality(DOMAIN files) + 1) : ~taken(Suffixed(title, n))}
    IN IF ~taken(title_to_filename(title)) THEN title_to_filename(title)
       ELSE Suffixed(title, CHOOSE n \in free : \A m \in free : n <= m)

C8_AddGetRoundTrip ==
    [][\A title \in LineTitles, content \in LineContents, tags \in LineTagLists,
          parent \in TextParents :
          LET r == add_note(FS, title, content, tags, parent)
          IN Apply(r.fs) => get_note(r.fs, r.ret) = Header(title, tags) \o content]_vars

\* C9: an index entry carries both children-count and descendant-count, with
\* children-count > 0, or carries neither; no count is stored as 0; and
\* list_notes omits children_count/descendant_count exactly for the entries
\* that lack them.
C9_CountsPresentOnlyWhenPositive ==
    /\ \A di \in AllEntries :
          LET e == EntryAt(di)
          IN /\ ("children_count" \in DOMAIN e) <=> ("descendant_count" \in DOMAIN e)
             /\ "children_count" \in DOMAIN e
                   => e.children_count > 0 /\ e.descendant_count > 0
    /\ \A d \in DOMAIN index :
          LET listed == list_notes(FS, d)
          IN /\ Len(listed) = Len(index[d])
             /\ \A i \in 1..Len(listed) :
                   /\ ("children_count" \in DOMAIN listed[i])
                         <=> ("children_count" \in DOMAIN index[d][i])
                   /\ ("descendant_count" \in DOMAIN listed[i])
                         <=> ("descendant_count" \in DOMAIN index[d][i])

\* C9's case: a parent's entry carries both counts and list_notes shows them,
\* while its child's entry carries none and list_notes shows none
C9_Witness ==
    \E d \in DOMAIN index, c \in DOMAIN index :
        /\ \E i \in 1..Len(index[d]) :
              /\ "children_count" \in DOMAIN index[d][i]
              /\ ChildDir(index[d][i].filename) = c
              /\ list_notes(FS, d)[i].children_count = index[d][i].children_count
        /\ \E j \in 1..Len(index[c]) :
              /\ "children_count" \notin DOMAIN index[c][j]
              /\ "children_count" \notin DOMAIN list_notes(FS, c)[j]

(***************************************************************************)
(* Deletion.                                                               *)
(***************************************************************************)
\* the directories on the way from the directory of path p up to the root,
\* the root excluded: the child directories of the note's parent and ancestors
DirsAbove(p) == Ancestors(ParentOf(p)) \ {Root}

\* directory x lies on an unbroken chain of notes above path p: every directory
\* from the one holding p up to x is the child directory of an indexed note
ChainedAbove(p, x) ==
    \A y \in DirsAbove(p) :
        (Len(y) >= Len(x)) => EntriesNaming(FS, ParentOf(y), y \o MD) # {}

\* C10: deleting one of several children of a note lowers that note's
\* children_count, and the descendant counts of the note and of its ancestors,
\* by exactly the number of notes removed (one); deleting the last child of a
\* note removes both count fields from the note's entry.
C10_DeleteLowersCounts ==
    \A filename \in Indexed :
        LET d == ParentOf(filename)
            r == delete_note(FS, filename)
        IN \A x \in DirsAbove(filename) :
              \A i \in EntriesNaming(FS, ParentOf(x), x \o MD) :
                 LET e == load_index(FS, ParentOf(x))[i]
                     after == load_index(r.fs, ParentOf(x))[i]
                 IN (ChainedAbove(filename, x) /\ "children_count" \in DOMAIN e)
                    => IF x = d /\ IndexSize(d) = 1
                       THEN /\ "children_count" \notin DOMAIN after
                            /\ "descendant_count" \notin DOMAIN after
                       ELSE /\ "children_count" \in DOMAIN after
                            /\ after.children_count
                                 = IF x = d THEN e.children_count - 1 ELSE e.children_count
                            /\ after.descendant_count = e.descendant_count - 1

\* the part of C10 about the note's own children count and about the last child
C10_ChildrenPart ==
    \A filename \in Indexed :
        LET d == ParentOf(filename)
            r == delete_note(FS, filename)
        IN \A i \in EntriesNaming(FS, ParentOf(d), d \o MD) :
                 LET e == load_index(FS, ParentOf(d))[i]
                     after == load_index(r.fs, ParentOf(d))[i]
                 IN (d # Root /\ "children_count" \in DOMAIN e)
                    => IF IndexSize(d) = 1
                       THEN /\ "children_count" \notin DOMAIN after
                            /\ "descendant_count" \notin DOMAIN after
                       ELSE after.children_count = e.children_count - 1

\* the title, filename and tags of the entries of an index, in order
Plain(idx) == [i \in 1..Len(idx) |-> PlainEntry(idx[i])]

SoleNote(p) ==
    LET d == ParentOf(p)
        c == directory_contents(FS, d)
    IN /\ d # Root
       /\ c.notes = {p}
       /\ c.subdirs = {}
       /\ \A i \in 1..Len(load_index(FS, d)) : load_index(FS, d)[i].filename = p

\* the directory d and its index file are gone from fs
Removed(fs, d) == d \notin fs.dirs /\ d \notin DOMAIN fs.index

\* C12: when delete_note or move_note takes the only note out of a non-root
\* subdirectory, leaving it with nothing but an index whose mapping is empty
\* (or nothing at all), the subdirectory and its index file no longer exist
\* after the call.
C12_SoleNoteCleanup ==
    \A filename \in DOMAIN files :
        SoleNote(filename)
        => /\ LET r == delete_note(FS, filename)
              IN r.ret = TRUE => Removed(r.fs, ParentOf(filename))
           /\ \A target_folder \in Parents :
                 LET r == move_note(FS, filename, target_folder)
                 IN (/\ r.ret # ValueError
                     /\ ParentOf(filename) \notin Ancestors(ParentOf(r.ret)))
                    => Removed(r.fs, ParentOf(filename))

\* C12's case: the only note of a second-level directory, which has an index,
\* can be deleted or moved to the root, and either way its directory goes
C12_Witness ==
    \E filename \in Indexed :
        /\ SoleNote(filename)
        /\ ParentOf(ParentOf(filename)) # Root
        /\ ParentOf(filename) \in DOMAIN index
        /\ delete_note(FS, filename).ret = TRUE
        /\ Removed(delete_note(FS, filename).fs, ParentOf(filename))
        /\ move_note(FS, filename, NoParent).ret \in DOMAIN move_note(FS, filename, NoParent).fs.files
        /\ Removed(move_note(FS, filename, NoParent).fs, ParentOf(filename))

\* filenames at which nothing exists: in the root, in a directory that may
\* exist, and in a directory that never exists
MissingNames ==
    {Missing, <<"a", "/", "z", ".", "m", "d">>, <<"q", "/", "z", ".", "m", "d">>}

\* C13: when nothing exists at the filename, get_note returns None and
\* update_note, delete_note, add_tags and remove_tags return False, and each
\* leaves every file, index and directory as it was.
C13_MissingFileFails ==
    \A filename \in MissingNames :
        /\ get_note(FS, filename) = None
        /\ delete_note(FS, filename) = [fs |-> FS, ret |-> FALSE]
        /\ \A tags \in TextTagLists :
              /\ add_tags(FS, filename, tags) = [fs |-> FS, ret |-> FALSE]
              /\ remove_tags(FS, filename, tags) = [fs |-> FS, ret |-> FALSE]
              /\ \A content \in TextContents :
                    update_note(FS, filename, content, tags) = [fs |-> FS, ret |-> FALSE]

\* C13's case: the store holds a tagged note in the directory a, whose index
\* exists, and the calls on the missing a/z.md fail
C13_Witness ==
    /\ <<"a">> \in DOMAIN index
    /\ \E i \in 1..Len(index[<<"a">>]) : index[<<"a">>][i].tags # <<>>
    /\ delete_note(FS, <<"a", "/", "z", ".", "m", "d">>).ret = FALSE
    /\ update_note(FS, <<"a", "/", "z", ".", "m", "d">>, <<>>, <<>>).ret = FALSE

\* C14: move_note raises ValueError when nothing exists at the source filename
\* or when the index of the source directory has no entry for it, and then it
\* changes nothing: no file, no index, no directory (the target folder is not
\* created).
C14_MoveFailsCleanly ==
    \A filename \in (DOMAIN files \ Indexed) \cup MissingNames, target_folder \in Parents :
        move_note(FS, filename, target_folder) = [fs |-> FS, ret |-> ValueError]

\* C14's case: a note file without an index entry is on disk, and its move to
\* a folder that does not exist raises the error
C14_Witness ==
    \E filename \in DOMAIN files \ Indexed, target_folder \in Parents :
        /\ target_folder # NoParent
        /\ target_folder \notin dirs
        /\ ParentOf(filename) # target_folder
        /\ move_note(FS, filename, target_folder).ret = ValueError

(***************************************************************************)
(* Updates and tags.                                                       *)
(***************************************************************************)
\* the entries of fs that name path p, in the index of p's directory
EntriesIn(fs, p) ==
    {load_index(fs, ParentOf(p))[i] : i \in EntriesNaming(fs, ParentOf(p), p)}

Ascending(t) == \A i \in 1..Len(t), j \in 1..Len(t) : i < j => StrLess(t[i], t[j])

C18_TagsPreserveContent ==
    \A filename \in Indexed, tags \in TextTagLists \cup LineTagLists :
        \A r \in {add_tags(FS, filename, tags), remove_tags(FS, filename, tags)} :
            r.ret = TRUE
            => \A e \in EntriesIn(r.fs, filename) :
                  get_note(r.fs, filename)
                    = Header(EntryOf(filename).title, e.tags) \o ContentOf(filename)

(***************************************************************************)
(* References.                                                             *)
(***************************************************************************)
\* the other note files whose content names the note old
Referrers(old) ==
    {p \in DOMAIN files \ {old} : Contains(get_note(FS, p), old)}

C20_MoveIntoFolderKeepsNotes ==
    \A filename \in Indexed, target_folder \in Parents :
        LET r == move_note(FS, filename, target_folder)
            before == list_notes(FS, target_folder)
            after == list_notes(r.fs, target_folder)
        IN  (/\ r.ret \notin {ValueError, IsADirectoryError}
             /\ ParentOf(filename) # target_folder
             /\ before # <<>>)
            => /\ \A i \in 1..Len(before) :
                     /\ before[i].filename \in DOMAIN r.fs.files
                     /\ \E j \in 1..Len(after) :
                           /\ after[j].filename = before[i].filename
                           /\ after[j].title = before[i].title
               /\ \E j \in 1..Len(after) : after[j].filename = r.ret
               /\ \A i \in 1..Len(before) : before[i].filename # r.ret
               /\ r.ret \notin DOMAIN files

(***************************************************************************)
(* Listing.                                                                *)
(***************************************************************************)
\* a folder that no call ever creates
NoFolder == <<"q">>

\* C21: list_notes(parent) returns one item per entry of the index of that one
\* directory (the root without a parent), in the order of the index, each with
\* the filename, title and tags of its entry and with the counts the entry
\* stores; every item is a note of that directory, none of a deeper or a
\* shallower one; the list is empty for a parent whose directory does not exist.
C21_ListNotesOneDirectory ==
    \A parent \in Parents \cup {NoFolder} :
        LET listed == list_notes(FS, parent)
            idx == load_index(FS, parent)
        IN  /\ Len(listed) = Len(idx)
            /\ \A i \in 1..Len(idx) :
                  /\ listed[i].filename = idx[i].filename
                  /\ listed[i].title = idx[i].title
                  /\ listed[i].tags = idx[i].tags
                  /\ ("children_count" \in DOMAIN listed[i]
                       <=> "children_count" \in DOMAIN idx[i])
                  /\ ("children_count" \in DOMAIN idx[i]
                       => /\ listed[i].children_count = idx[i].children_count
                          /\ listed[i].descendant_count = idx[i].descendant_count)
                  /\ ParentOf(listed[i].filename) = parent
            /\ parent \notin dirs => listed = <<>>

\* C21's case: notes at three levels, each level listed with its own note
\* only, and a folder that does not exist
C21_Witness ==
    /\ Len(list_notes(FS, NoParent)) = 1
    /\ Len(list_notes(FS, <<"a">>)) = 1
    /\ Len(list_notes(FS, <<"a", "/", "b">>)) = 1
    /\ list_notes(FS, NoParent)[1].filename # list_notes(FS, <<"a">>)[1].filename
    /\ list_notes(FS, NoFolder) = <<>>

\* C22: a parent of add_note or list_notes, or a target folder of move_note,
\* given as p and as p.md names the same directory: the two calls leave the
\* same files and the same indexes and return the same result.
C22_ParentWithOrWithoutMd ==
    \A p \in Parents :
        /\ list_notes(FS, p \o MD) = list_notes(FS, p)
        /\ \A title \in Titles, content \in Contents, tags \in TagLists :
              add_note(FS, title, content, tags, p \o MD)
                = add_note(FS, title, content, tags, p)
        /\ \A filename \in DOMAIN files \cup {Missing} :
              move_note(FS, filename, p \o MD) = move_note(FS, filename, p)

\* C22's case: the folder a holds a note and the root holds another; listing
\* a.md shows the note of a, adding under a.md writes into a, and moving the
\* root note to a.md takes it into a
C22_Witness ==
    \E filename \in Indexed :
        /\ ParentOf(filename) = Root
        /\ Len(list_notes(FS, <<"a">> \o MD)) = 1
        /\ ParentOf(add_note(FS, <<"b">>, <<"x">>, <<>>, <<"a">> \o MD).ret) = <<"a">>
        /\ move_note(FS, filename, <<"a">> \o MD).ret \notin {ValueError, filename}
        /\ ParentOf(move_note(FS, filename, <<"a">> \o MD).ret) = <<"a">>

(***************************************************************************)
(* Parents that do not exist yet.                                          *)
(***************************************************************************)
\* C23: add_note with a parent succeeds whether or not the directory of the
\* parent, the directories on its path or a parent note exist: afterwards the
\* directory and every directory above it exist, the note is a file of that
\* directory with the body of the call, and the index of that directory has
\* an entry with the title, the filename and the tags of the note.
C23_AddCreatesParents ==
    \A title \in Titles, content \in Contents, tags \in TagLists,
       parent \in Parents \ {NoParent} :
        LET r == add_note(FS, title, content, tags, parent)
        IN  /\ Ancestors(parent) \subseteq r.fs.dirs
            /\ r.ret \in DOMAIN r.fs.files
            /\ r.ret \notin DOMAIN files
            /\ ParentOf(r.ret) = parent
            /\ r.fs.files[r.ret] = note_content(title, tags, content)
            /\ \E i \in 1..Len(load_index(r.fs, parent)) :
                  /\ load_index(r.fs, parent)[i].title = title
                  /\ load_index(r.fs, parent)[i].filename = r.ret
                  /\ load_index(r.fs, parent)[i].tags = tags

\* C23's case: the root holds one note, b.md, so there is neither a folder a
\* nor a note a.md, and add_note under a/b creates a and a/b and the note
C23_Witness ==
    /\ DOMAIN files = {<<"b", ".", "m", "d">>}
    /\ dirs = {Root}
    /\ LET r == add_note(FS, <<"b">>, <<"x">>, <<>>, <<"a", "/", "b">>)
       IN  /\ {<<"a">>, <<"a", "/", "b">>} \subseteq r.fs.dirs
           /\ r.ret = <<"a", "/", "b", "/", "b", ".", "m", "d">>
           /\ r.ret \in DOMAIN r.fs.files
           /\ Len(load_index(r.fs, <<"a", "/", "b">>)) = 1

(***************************************************************************)
(* Slugs.                                                                  *)
(***************************************************************************)
\* the maximal runs of characters of [a-z0-9] in s, left to right
RECURSIVE SlugRuns(_)
SlugRuns(s) ==
    IF Len(s) = 0 THEN <<>>
    ELSE IF ~IsAlnum(s[1]) THEN SlugRuns(Tail(s))
    ELSE LET stops == {i \in 1..Len(s) : ~IsAlnum(s[i])}
             n == IF stops = {} THEN Len(s)
                  ELSE (CHOOSE i \in stops : \A j \in stops : i <= j) - 1
         IN <<SubSeq(s, 1, n)>> \o SlugRuns(SubSeq(s, n + 1, Len(s)))

\* the slug the words describe: the runs of [a-z0-9] of the lowercased title,
\* one '_' between two runs and none at either end, then '.md'
SlugOf(title) ==
    Join(SlugRuns([i \in 1..Len(title) |-> Lower(title[i])]), <<"_">>) \o MD

NoteWithSpecialCharsSlug ==
    <<"n","o","t","e","_","w","i","t","h","_","p","e","c","i","a","l","_",
      "c","h","_","r","s","_","n","u","m","b","3","r","s",".","m","d">>

\* C24: the slug of a title is the title lowercased, every character outside
\* [a-z0-9] replaced by '_', runs of '_' collapsed to one, '_' removed at both
\* ends, '.md' appended; it depends on the title alone, so add_note gives a
\* note in the root that filename whenever no file has it yet; and the title
\* of the test gives note_with_pecial_ch_rs_numb3rs.md.
C24_SlugOfTitle ==
    /\ \A title \in SlugTitles :
          /\ title_to_filename(title) = SlugOf(title)
          /\ SlugOf(title) \notin DOMAIN files
             => add_note(FS, title, <<"x">>, <<>>, NoParent).ret = SlugOf(title)
    /\ title_to_filename(SpecialCharsTitle) = NoteWithSpecialCharsSlug

\* C24's case: the note of the test is on disk under its slug, and a title
\* with a capital, a run of two characters outside [a-z0-9] and a trailing
\* one gets a slug with one '_'
C24_Witness ==
    /\ NoteWithSpecialCharsSlug \in DOMAIN files
    /\ load_index(FS, Root)[1].title = SpecialCharsTitle
    /\ title_to_filename(<<"A", " ", "$", "b", "_">>) = <<"a", "_", "b", ".", "m", "d">>

(***************************************************************************)
(* Files without an index entry.                                           *)
(***************************************************************************)
\* the note files on disk that no entry of the index of their directory names
Unlisted == DOMAIN files \ Indexed

\* C25: on a note file that is on disk but has no entry in the index of its
\* directory, update_note, add_tags, remove_tags and delete_note do not return
\* True and move_note raises its error.
C25_UnlistedFileFails ==
    \A filename \in Unlisted :
        /\ \A content \in TextContents, tags \in TextTagLists :
              /\ update_note(FS, filename, content, tags).ret # TRUE
              /\ add_tags(FS, filename, tags).ret # TRUE
              /\ remove_tags(FS, filename, tags).ret # TRUE
        /\ \A target_folder \in TextParents :
              move_note(FS, filename, target_folder).ret = ValueError
        /\ delete_note(FS, filename).ret # TRUE

\* the same without delete_note
C25_ButDelete ==
    \A filename \in Unlisted :
        /\ \A content \in TextContents, tags \in TextTagLists :
              /\ update_note(FS, filename, content, tags).ret = FALSE
              /\ add_tags(FS, filename, tags).ret = FALSE
              /\ remove_tags(FS, filename, tags).ret = FALSE
              /\ update_note(FS, filename, content, tags).fs = FS
              /\ add_tags(FS, filename, tags).fs = FS
              /\ remove_tags(FS, filename, tags).fs = FS
        /\ \A target_folder \in TextParents :
              /\ move_note(FS, filename, target_folder).ret = ValueError
              /\ move_note(FS, filename, target_folder).fs = FS

(***************************************************************************)
(* Index files that cannot be parsed.                                      *)
(***************************************************************************)
\* the directories whose index file exists and cannot be parsed
Unparseable(fs) == {d \in DOMAIN fs.index : NotJSON(fs.index[d])}

\* the call with outcome r ended with the error of the parser
Fails(r) == Raised(r)

\* list_notes ended with the error of the parser instead of a list
ListFails(listed) == Len(listed) = 1 /\ DOMAIN listed[1] = {"error"}

\* the index file of d cannot be parsed after any call of any operation
StaysUnparseable(d) ==
    /\ \A title \in Titles, parent \in CorruptParents :
          d \in Unparseable(add_note(FS, title, <<"x">>, <<>>, parent).fs)
    /\ \A filename \in DOMAIN files \cup {Missing} :
          /\ d \in Unparseable(delete_note(FS, filename).fs)
          /\ d \in Unparseable(update_note(FS, filename, <<"y">>, <<<<"t">>>>).fs)
          /\ d \in Unparseable(add_tags(FS, filename, <<<<"t">>>>).fs)
          /\ d \in Unparseable(remove_tags(FS, filename, <<<<"t">>>>).fs)
          /\ \A target_folder \in CorruptParents :
                d \in Unparseable(move_note(FS, filename, target_folder).fs)

\* C26: when the index file of a directory d cannot be parsed, the calls that
\* load it end with the error of the parser: list_notes of d, add_note with d
\* or a directory below d as parent, every call on a note file of d, delete_note
\* of a note file below d, and move_note of a listed note into d; and after
\* any call of any operation the index file of d is still the file that
\* cannot be parsed.
C26_UnparseableIndexFails ==
    \A d \in Unparseable(FS) :
        /\ ListFails(list_notes(FS, d))
        /\ \A title \in Titles, parent \in CorruptParents :
              d \in Ancestors(parent)
              => Fails(add_note(FS, title, <<"x">>, <<>>, parent))
        /\ \A filename \in DOMAIN files :
              /\ ParentOf(filename) = d
                 => /\ Fails(update_note(FS, filename, <<"y">>, <<<<"t">>>>))
                    /\ Fails(add_tags(FS, filename, <<<<"t">>>>))
                    /\ Fails(remove_tags(FS, filename, <<<<"t">>>>))
                    /\ \A target_folder \in CorruptParents :
                          Fails(move_note(FS, filename, target_folder))
              /\ d \in Ancestors(ParentOf(filename))
                 => Fails(delete_note(FS, filename))
              /\ (filename \in Indexed /\ ParentOf(filename) # d)
                 => Fails(move_note(FS, filename, d))
        /\ StaysUnparseable(d)

\* C26's case: the index of the folder a cannot be parsed while a holds a
\* note and the root holds a listed note; the delete of the note of a fails
\* and changes nothing, and the listing of a and the move of the root note
\* into a fail
C26_Witness ==
    /\ <<"a">> \in Unparseable(FS)
    /\ \E filename \in DOMAIN files :
          /\ ParentOf(filename) = <<"a">>
          /\ Fails(delete_note(FS, filename))
          /\ delete_note(FS, filename).fs = FS
    /\ \E filename \in Indexed :
          /\ ParentOf(filename) = Root
          /\ Fails(move_note(FS, filename, <<"a">>))
    /\ ListFails(list_notes(FS, <<"a">>))

(***************************************************************************)
(* Counts at every save.                                                   *)
(***************************************************************************)
\* the number of indexed notes in the whole subtree under directory d of fs
RECURSIVE SubtreeSizeIn(_, _)
RECURSIVE SubtreeOfEntriesIn(_, _, _)
SubtreeOfEntriesIn(fs, d, i) ==
    IF i > Len(load_index(fs, d)) THEN 0
    ELSE SubtreeSizeIn(fs, ChildDir(load_index(fs, d)[i].filename))
         + SubtreeOfEntriesIn(fs, d, i + 1)

SubtreeSizeIn(fs, d) == Len(load_index(fs, d)) + SubtreeOfEntriesIn(fs, d, 1)

\* the indexes a call with outcome r has written: those that differ from
\* what was on disk before the call
SavedBy(r) ==
    {d \in DOMAIN r.fs.index : d \notin DOMAIN index \/ r.fs.index[d] # index[d]}

\* the entry carries the number of entries of its child directory's index as
\* children_count, and no count when that number is zero
ChildrenCountMatches(fs, e) ==
    LET n == Len(load_index(fs, ChildDir(e.filename)))
    IN  /\ "children_count" \in DOMAIN e <=> n > 0
        /\ n > 0 => e.children_count = n

\* the entry carries the number of notes below it as descendant_count
DescendantCountMatches(fs, e) ==
    LET n == SubtreeSizeIn(fs, ChildDir(e.filename))
    IN  /\ "descendant_count" \in DOMAIN e <=> n > 0
        /\ n > 0 => e.descendant_count = n

\* the outcomes of every call of add_note, delete_note and move_note
CallOutcomes ==
    {add_note(FS, title, content, tags, parent) :
        title \in Titles, content \in Contents, tags \in TagLists, parent \in Parents}
    \cup {delete_note(FS, filename) : filename \in DOMAIN files}
    \cup {move_note(FS, filename, target_folder) :
            filename \in Indexed, target_folder \in Parents}

\* C27: after a call that saves an index, every entry of that index, not only
\* the one the call was about, carries counts that match the tree: its
\* children_count is the number of entries of its child directory's index and
\* its descendant_count the number of notes below it.
C27_SaveRecountsEveryEntry ==
    \A r \in CallOutcomes :
        \A d \in SavedBy(r) :
            \A e \in SeqRange(r.fs.index[d]) :
                /\ ChildrenCountMatches(r.fs, e)
                /\ DescendantCountMatches(r.fs, e)

\* the part of C27 about children_count
C27_ChildrenPart ==
    \A r \in CallOutcomes :
        \A d \in SavedBy(r) :
            \A e \in SeqRange(r.fs.index[d]) : ChildrenCountMatches(r.fs, e)

\* every entry of a saved index carries the counts the code computes from the
\* tree the call leaves
C27_AsComputed ==
    \A r \in CallOutcomes :
        \A d \in SavedBy(r) :
            \A e \in SeqRange(r.fs.index[d]) : e = WithCounts(r.fs, PlainEntry(e))

(***************************************************************************)
(* The refresh of the ancestors' counts.                                   *)
(***************************************************************************)
\* the tree with other count values stored in every index entry, as index
\* files written before the tree below them changed would hold
OtherCounts(fs) ==
    [fs EXCEPT !.index =
        [d \in DOMAIN fs.index |->
            [i \in 1..Len(fs.index[d]) |->
                [title |-> fs.index[d][i].title, filename |-> fs.index[d][i].filename,
                 tags |-> fs.index[d][i].tags,
                 children_count |-> 7, descendant_count |-> 9]]]]

\* C28: _update_parent_counts run twice for a filename leaves every index as
\* one run does, whatever counts were stored before; and the indexes it
\* writes come out the same from any stored counts, so the stored values (and
\* count_delta, which the code never reads) have no effect on the result.
C28_RefreshIsIdempotent ==
    \A filename \in DOMAIN files \cup {Missing} :
        /\ \A before \in {FS, OtherCounts(FS)} :
              LET once == update_parent_counts(before, filename)
              IN update_parent_counts(once, filename) = once
        /\ LET fresh == update_parent_counts(FS, filename)
               other == update_parent_counts(OtherCounts(FS), filename)
           IN \A d \in DOMAIN index :
                 other.index[d] # OtherCounts(FS).index[d]
                 => other.index[d] = fresh.index[d]

\* C28's case: a note three folders down whose ancestors are notes; the
\* refresh run on a tree with other stored counts rewrites the indexes of the
\* root and of a, and a second run changes nothing
C28_Witness ==
    \E filename \in DOMAIN files :
        LET once == update_parent_counts(OtherCounts(FS), filename)
        IN  /\ ParentOf(filename) = <<"a", "/", "b">>
            /\ {Root, <<"a">>} \subseteq DOMAIN index
            /\ once.index[Root] # OtherCounts(FS).index[Root]
            /\ once.index[<<"a">>] # OtherCounts(FS).index[<<"a">>]
            /\ once.index[Root] = index[Root]
            /\ update_parent_counts(once, filename) = once

(***************************************************************************)
(* What cleanup may remove.                                                *)
(***************************************************************************)
\* directory d of the current tree holds nothing, or nothing but an index
\* file whose mapping is empty
HoldsNothing(d) ==
    /\ \A p \in DOMAIN files : ParentOf(p) # d
    /\ \A x \in dirs \ {Root} : ParentOf(x) # d
    /\ d \in DOMAIN index => index[d] = <<>>

\* C29: _cleanup_empty_directory removes a directory only when it is not the
\* root and holds nothing, or nothing but an index file with an empty mapping,
\* and then removes that directory and its index file and nothing else; run on
\* the root or on a directory that holds a note file, a subdirectory or a
\* non-empty index it changes nothing.  So delete_note and move_note never
\* remove the root, never remove a directory other than the one the note was
\* in, and never remove a directory that holds something after the note left.
C29_CleanupOnlyWhenEmpty ==
    /\ \A d \in dirs \cup {NoFolder} :
          LET r == cleanup_empty_directory(FS, d)
          IN  IF d \in dirs /\ d # Root /\ HoldsNothing(d)
              THEN r.dirs \in {dirs, dirs \ {d}} /\ r.files = files
              ELSE r = FS
    /\ \A filename \in DOMAIN files, target_folder \in Parents :
          \A r \in {delete_note(FS, filename).fs,
                    move_note(FS, filename, target_folder).fs} :
              /\ Root \in r.dirs
              /\ dirs \ r.dirs \subseteq {ParentOf(filename)} \ {Root}
              /\ \A d \in dirs \ r.dirs :
                    /\ \A p \in DOMAIN r.files : ParentOf(p) # d
                    /\ \A x \in r.dirs \ {Root} : ParentOf(x) # d
                    /\ \A p \in DOMAIN files \ {filename} : ParentOf(p) # d
                    /\ \A i \in 1..Len(load_index(FS, d)) :
                          load_index(FS, d)[i].filename = filename

\* C29's case: the root, the folder a and the folder a/b hold one note each;
\* the delete of the note of a leaves a in place because of a/b, the delete of
\* the note of a/b removes a/b, and the delete of the last note of the root
\* leaves the root
C29_Witness ==
    /\ \E filename \in Indexed :
          /\ {p \in DOMAIN files : ParentOf(p) = <<"a">>} = {filename}
          /\ <<"a", "/", "b">> \in dirs
          /\ <<"a">> \in delete_note(FS, filename).fs.dirs
    /\ \E filename \in Indexed :
          /\ ParentOf(filename) = <<"a", "/", "b">>
          /\ <<"a", "/", "b">> \notin delete_note(FS, filename).fs.dirs
    /\ \E filename \in Indexed :
          /\ {p \in DOMAIN files : ParentOf(p) = Root} = {filename}
          /\ Root \in delete_note(FS, filename).fs.dirs
          /\ DOMAIN delete_note(FS, filename).fs.files = DOMAIN files \ {filename}


(***************************************************************************)
(* The order of the statements of delete_note and move_note.               *)
(***************************************************************************)
\* a call that has run its last statement leaves the tree that the method as a
\* whole gives on the tree the call started on
StepsAgreeWithCalls ==
    [][(call # Idle /\ call' = Idle) =>
          [dirs |-> dirs', files |-> files', index |-> index'] =
              (IF call.op = "delete_note"
               THEN delete_note(call.start, call.filename).fs
               ELSE move_note(call.start, call.filename, call.target_folder0).fs)]_vars

\* C30: whenever delete_note or move_note runs the cleanup of the source
\* directory, the note's file is already gone from disk and the index of the
\* source directory on disk already has no entry for the note: cleanup runs
\* after the save that removes the entry and after the unlink, never before.
C30_CleanupAfterSaveAndUnlink ==
    [][(DeleteCleanup \/ MoveCleanup) =>
          /\ call.filename \notin DOMAIN files
          /\ EntriesNaming(FS, get_directory_for_note(call.filename), call.filename) = {}]_vars

\* a call is about to clean up the folder a, whose only note it has removed
\* from the index and from disk
C30_Witness ==
    /\ call # Idle
    /\ StepsOf(call.op)[call.at] = "cleanup"
    /\ get_directory_for_note(call.filename) = <<"a">>
    /\ call.start.index[<<"a">>] # <<>>
    /\ call.filename \in DOMAIN call.start.files
    /\ call.filename \notin DOMAIN files
    /\ <<"a">> \in dirs
    /\ index[<<"a">>] = <<>>

(***************************************************************************)
(* What the reference rewrite of a move leaves alone.                      *)
(***************************************************************************)
\* a target folder as a caller may write it, with a trailing '/'
FolderWithSlash == <<"a", "/">>

\* move_note has moved the note at old and returned its new filename
Moved(r, old) ==
    /\ ~Raised(r)
    /\ r.ret \notin {ValueError, IsADirectoryError}
    /\ r.ret # old

\* the moved note at its new place has the text it had at the old place
MovedNoteKept(r, old) ==
    /\ IsFile(r.fs, r.ret)
    /\ r.fs.files[PurePath(r.ret)] = files[old]

\* every other note file without the old filename in it is as it was
UnrelatedKept(r, old) ==
    \A p \in DOMAIN files \ {old} :
        ~Contains(files[p], old)
            => (p \in DOMAIN r.fs.files /\ r.fs.files[p] = files[p])

\* C31: after move_note has moved a note, the reference rewrite has not
\* rewritten the moved note at its new location, and every note file whose
\* content does not contain the old filename is byte for byte as before.
C31_RewriteSparesMovedNote ==
    \A old \in DOMAIN files, target_folder \in RefParents \cup {FolderWithSlash} :
        LET r == move_note(FS, old, target_folder)
        IN Moved(r, old) => (MovedNoteKept(r, old) /\ UnrelatedKept(r, old))

\* the same for target folders written without a trailing '/'
C31_ForPlainFolders ==
    \A old \in DOMAIN files, target_folder \in RefParents :
        LET r == move_note(FS, old, target_folder)
        IN Moved(r, old) => (MovedNoteKept(r, old) /\ UnrelatedKept(r, old))

\* the second half of C31 for every target folder
C31_UnrelatedPart ==
    \A old \in DOMAIN files, target_folder \in RefParents \cup {FolderWithSlash} :
        LET r == move_note(FS, old, target_folder)
        IN Moved(r, old) => UnrelatedKept(r, old)

(***************************************************************************)
(* One entry per title.                                                    *)
(***************************************************************************)
\* the entries of the index idx that have the title
WithTitle(idx, title) == {i \in 1..Len(idx) : idx[i].title = title}

\* the directory add_note writes a note of the parent into
DirOfParent(parent) == IF parent # NoParent THEN parent ELSE Root

\* C33: no index holds two entries with the same title, and add_note with a
\* title the index of the target directory already holds replaces that
\* entry: the index keeps its size, its one entry for the title names the
\* file just written, which is a new file, and carries the new tags, and
\* list_notes shows exactly one item with the title, for that file.
C33_LastWriteWins ==
    /\ \A d \in DOMAIN index :
          \A i, j \in 1..Len(index[d]) :
              index[d][i].title = index[d][j].title => i = j
    /\ \A title \in TextTitles, tags \in TextTagLists, parent \in TextParents :
          LET d == DirOfParent(parent)
              before == load_index(FS, d)
              r == add_note(FS, title, <<"x">>, tags, parent)
              after == load_index(r.fs, d)
              listed == list_notes(r.fs, parent)
          IN WithTitle(before, title) # {}
             => /\ Len(after) = Len(before)
                /\ Cardinality(WithTitle(after, title)) = 1
                /\ \A i \in WithTitle(after, title) :
                      /\ after[i].filename = r.ret
                      /\ after[i].tags = tags
                /\ r.ret \notin DOMAIN files
                /\ r.ret \in DOMAIN r.fs.files
                /\ Cardinality(WithTitle(listed, title)) = 1
                /\ \A i \in WithTitle(listed, title) :
                      listed[i].filename = r.ret /\ listed[i].tags = tags

\* C33's case: the folder a holds the note a/b.md of title b without tags,
\* and a second add of the title b there, with a tag, takes over the entry
C33_Witness ==
    LET r == add_note(FS, <<"b">>, <<"x">>, <<<<"t">>>>, <<"a">>)
    IN /\ Len(load_index(FS, <<"a">>)) = 1
       /\ load_index(FS, <<"a">>)[1].title = <<"b">>
       /\ load_index(FS, <<"a">>)[1].tags = <<>>
       /\ load_index(FS, <<"a">>)[1].filename = <<"a", "/", "b", ".", "m", "d">>
       /\ Len(load_index(r.fs, <<"a">>)) = 1
       /\ load_index(r.fs, <<"a">>)[1].filename = <<"a", "/", "b", "_", "1", ".", "m", "d">>
       /\ load_index(r.fs, <<"a">>)[1].tags = <<<<"t">>>>

(***************************************************************************)
(* What update_note, add_tags and remove_tags leave alone.                 *)
(***************************************************************************)
\* the call with result r on the note filename has changed at most the text
\* of that note's file and the tags of its entry
OnlyNoteChanged(r, filename) ==
    /\ ~Raised(r)
    /\ r.fs.dirs = dirs
    /\ DOMAIN r.fs.files = DOMAIN files
    /\ \A p \in DOMAIN files \ {filename} : r.fs.files[p] = files[p]
    /\ DOMAIN r.fs.index = DOMAIN index
    /\ \A d \in DOMAIN index :
          /\ Len(r.fs.index[d]) = Len(index[d])
          /\ \A i \in 1..Len(index[d]) :
                /\ r.fs.index[d][i].title = index[d][i].title
                /\ r.fs.index[d][i].filename = index[d][i].filename
                /\ (d # ParentOf(filename) \/ index[d][i].filename # filename)
                      => r.fs.index[d][i].tags = index[d][i].tags

\* C34: update_note, add_tags and remove_tags change only the text of the
\* target note's file and the tags of its own index entry: the directories,
\* the set of note files, the text of every other file, and the title and
\* filename of every entry, at its place in its index, and the tags of every
\* other entry are as before the call.
C34_EditsTouchOneNote ==
    \A filename \in DOMAIN files \cup {Missing}, tags \in TextTagLists :
        /\ \A content \in TextContents :
              OnlyNoteChanged(update_note(FS, filename, content, tags), filename)
        /\ OnlyNoteChanged(add_tags(FS, filename, tags), filename)
        /\ OnlyNoteChanged(remove_tags(FS, filename, tags), filename)

\* C34's case: two notes with different tags share the folder a; updating,
\* tagging and untagging one of them changes its file and its entry's tags
C34_Witness ==
    \E filename \in Indexed :
        LET d == ParentOf(filename)
            updated == update_note(FS, filename, <<NL, "x">>, <<<<"u">>, <<"t">>>>)
            added == add_tags(FS, filename, <<<<"u">>>>)
            removed == remove_tags(FS, filename, <<<<"t">>>>)
        IN /\ d = <<"a">>
           /\ Len(index[d]) = 2
           /\ index[d][1].tags # index[d][2].tags
           /\ updated.ret = TRUE /\ updated.fs.files[filename] # files[filename]
           /\ updated.fs.index # index
           /\ added.ret = TRUE /\ added.fs.index # index
           /\ removed.ret = TRUE /\ removed.fs.index # index

(***************************************************************************)
(* Entries without a file.                                                 *)
(***************************************************************************)
\* C35: after any sequence of calls, on notes of any title, the empty one
\* included, every entry of every index names a note file that is on disk.
C35_EntriesNameFiles ==
    \A di \in AllEntries : IsFile(FS, EntryAt(di).filename)

\* the same for the entries whose title is not empty
C35_TitledEntriesNameFiles ==
    \A di \in AllEntries : EntryAt(di).title # EmptyTitle => IsFile(FS, EntryAt(di).filename)

(***************************************************************************)
(* The note during a move.                                                 *)
(***************************************************************************)
\* the text of the note file the call in progress was started on
NoteText == call.start.files[call.filename]

\* the file at path p holds that text
HoldsNote(p) == p \in DOMAIN files /\ files[p] = NoteText

\* the index of the target directory names the new file
TargetIndexNamesNew ==
    EntriesNaming(FS, StepTargetDir, call.new_full_filename) # {}

\* C36: at every point between the statements of move_note the text of the
\* note is on disk at the old path or at the new path; when the entry is
\* about to be removed from the source index the new file is written and the
\* target index saved with its entry, and when the old file is about to be
\* deleted the new file is written.
C36_MoveNeverLosesNote ==
    call.op = "move_note" =>
        /\ HoldsNote(call.filename) \/ HoldsNote(call.new_full_filename)
        /\ InStep("move_note", "save_source")
              => (HoldsNote(call.new_full_filename) /\ TargetIndexNamesNew)
        /\ InStep("move_note", "unlink") => HoldsNote(call.new_full_filename)

\* C36's case: a move of a root note into the folder a has deleted the old
\* file and goes on with the counts; the text is in the new file only
C36_Witness ==
    /\ InStep("move_note", "counts")
    /\ ParentOf(call.filename) = Root
    /\ ParentOf(call.new_full_filename) = <<"a">>
    /\ call.filename \notin DOMAIN files
    /\ HoldsNote(call.new_full_filename)

(***************************************************************************)
(* Note files that cannot be opened during the reference rewrite.          *)
(***************************************************************************)
\* the note files other than the moved one, in every combination
FaultSets(old) == SUBSET (DOMAIN files \ {old})

\* C32: when some note files other than the moved one cannot be opened
\* during the reference rewrite of a move, move_note returns the filename it
\* returns without the failures, the directories, the indexes with their
\* counts and the moved file are the same as without the failures, the files
\* that cannot be opened are left as they were, and every other file is
\* rewritten as without the failures.
C32_RewriteSkipsFailingFiles ==
    \A old \in DOMAIN files, target_folder \in TextParents :
        \A F \in FaultSets(old) :
            LET r == move_note(WithFaults(FS, F), old, target_folder)
                plain == move_note(FS, old, target_folder)
            IN  Moved(plain, old)
                => /\ r.ret = plain.ret
                   /\ r.fs.dirs = plain.fs.dirs
                   /\ r.fs.index = plain.fs.index
                   /\ DOMAIN r.fs.files = DOMAIN plain.fs.files
                   /\ old \notin DOMAIN r.fs.files
                   /\ r.fs.files[r.ret] = plain.fs.files[r.ret]
                   /\ \A p \in F : r.fs.files[p] = files[p]
                   /\ \A p \in DOMAIN files \ (F \cup {old}) :
                         r.fs.files[p] = plain.fs.files[p]

\* C32's case: the root note b.md is named by two other notes, one of them
\* cannot be opened during the move of b.md into the folder a, and the move
\* has rewritten the other one and left the failing one naming b.md
C32_Witness ==
    \E p, q \in Referrers(<<"b", ".", "m", "d">>) :
        LET r == move_note(WithFaults(FS, {p}), <<"b", ".", "m", "d">>, <<"a">>)
        IN  /\ p # q
            /\ Moved(r, <<"b", ".", "m", "d">>)
            /\ r.fs.files[p] = files[p]
            /\ r.fs.files[q] # files[q]
            /\ Contains(r.fs.files[q], r.ret)

(***************************************************************************)
(* The reading operations.                                                 *)
(***************************************************************************)
\* the directories, files and indexes of fs are those of the store
SameTree(fs) == fs.dirs = dirs /\ fs.files = files /\ fs.index = index

\* C37: get_note, for every filename, and list_notes, for every parent, leave
\* the directories, the note files and the indexes as they are, whether the
\* filename or the parent exists or not, and list_notes on a parent whose
\* directory does not exist does not make it.
C37_ReadsChangeNothing ==
    /\ \A filename \in DOMAIN files \cup ReadFilenames :
          SameTree(get_note_tree(FS, filename))
    /\ \A parent \in ReadParents :
          /\ SameTree(list_notes_tree(FS, parent))
          /\ ~DirExists(FS, normalize_parent(parent))
             => ~DirExists(list_notes_tree(FS, parent), normalize_parent(parent))

\* C37's case: a store with a note in the folder a and none in a/b, where
\* get_note gives the text of the note and nothing for a missing filename,
\* and list_notes gives the note of a and the empty list for the missing
\* folders a/b and q
C37_Witness ==
    /\ \E filename \in DOMAIN files :
          /\ ParentOf(filename) = <<"a">>
          /\ get_note(FS, filename) = files[filename]
          /\ \E i \in 1..Len(list_notes(FS, <<"a", ".", "m", "d">>)) :
                list_notes(FS, <<"a", ".", "m", "d">>)[i].filename = filename
    /\ get_note(FS, Missing) = None
    /\ ~DirExists(FS, <<"a", "/", "b">>)
    /\ list_notes(FS, <<"a", "/", "b">>) = <<>>
    /\ list_notes(FS, <<"q">>) = <<>>
    /\ SameTree(list_notes_tree(FS, <<"q">>))

(***************************************************************************)
(* The child directory of a deleted or moved note.                         *)
(***************************************************************************)
\* the path p is the directory d or lies below it
Inside(p, d) == p = d \/ StartsWith(p, d \o <<"/">>)

\* the note files on disk below the child directory of the note
ChildNotes(filename) == {p \in DOMAIN files : Inside(p, ChildDir(filename))}

\* the notes on disk that have a child directory with a note file in it
WithChildren == {p \in DOMAIN files : ChildNotes(p) # {}}

\* the directories of fs at and below the directory d, and their indexes
Below(fs, d) ==
    [dirs |-> {x \in fs.dirs : Inside(x, d)},
     index |-> [x \in {y \in DOMAIN fs.index : Inside(y, d)} |-> fs.index[x]]]

\* the note files of fs below the directory d are the given ones, each with
\* its content in the store
SameNotes(fs, d, notes) ==
    /\ {p \in DOMAIN fs.files : Inside(p, d)} = notes
    /\ \A p \in notes : fs.files[p] = files[p]

\* the call that gave r has left the child directory of the note as it was:
\* directories, indexes and note files
ChildDirKept(r, filename) ==
    /\ Below(r.fs, ChildDir(filename)) = Below(FS, ChildDir(filename))
    /\ SameNotes(r.fs, ChildDir(filename), ChildNotes(filename))

\* C38 as stated: delete_note and move_note on a note whose child directory
\* holds notes leave that directory as it was: its directories, its indexes
\* and its note files, at the same paths with the same contents.
C38_ChildDirectoryUntouched ==
    \A filename \in WithChildren :
        /\ ChildDirKept(delete_note(FS, filename), filename)
        /\ \A target_folder \in RefParents :
              ChildDirKept(move_note(FS, filename, target_folder), filename)

\* the same, but for the note files of the child directory that contain the
\* old filename of a moved note
C38_ButForReferences ==
    \A filename \in WithChildren :
        /\ ChildDirKept(delete_note(FS, filename), filename)
        /\ \A target_folder \in RefParents :
              LET r == move_note(FS, filename, target_folder)
              IN  /\ Below(r.fs, ChildDir(filename)) = Below(FS, ChildDir(filename))
                  /\ {p \in DOMAIN r.fs.files : Inside(p, ChildDir(filename))}
                        = ChildNotes(filename)
                  /\ \A p \in ChildNotes(filename) :
                        ~Contains(files[p], filename) => r.fs.files[p] = files[p]

\* the same, but for the moves into the child directory
C38_ButForMovesInside ==
    \A filename \in WithChildren :
        /\ ChildDirKept(delete_note(FS, filename), filename)
        /\ \A target_folder \in RefParents :
              ~Inside(target_folder, ChildDir(filename))
                  => ChildDirKept(move_note(FS, filename, target_folder), filename)

\* C38 amended: delete_note, and move_note into a folder that is not the
\* child directory of the note or below it, leave the child directory of the
\* note in place with its directories, its indexes and its set of note files
\* as they were, and every note file in it has its content as before unless
\* move_note rewrote the old filename of the moved note in it.
C38_ChildDirectoryStays ==
    \A filename \in WithChildren :
        /\ ChildDirKept(delete_note(FS, filename), filename)
        /\ \A target_folder \in RefParents :
              LET r == move_note(FS, filename, target_folder)
              IN  ~Inside(target_folder, ChildDir(filename))
                  => /\ Below(r.fs, ChildDir(filename)) = Below(FS, ChildDir(filename))
                     /\ {p \in DOMAIN r.fs.files : Inside(p, ChildDir(filename))}
                           = ChildNotes(filename)
                     /\ \A p \in ChildNotes(filename) :
                           ~Contains(files[p], filename) => r.fs.files[p] = files[p]

\* C38's case: a note with a note in its child directory, which delete_note
\* has deleted and move_note has moved to another folder outside that
\* directory, both leaving the note of the child directory where it was
C38_Witness ==
    \E filename \in WithChildren, target_folder \in RefParents :
        LET r == move_note(FS, filename, target_folder)
        IN  /\ delete_note(FS, filename).ret = TRUE
            /\ filename \notin DOMAIN delete_note(FS, filename).fs.files
            /\ ~Inside(target_folder, ChildDir(filename))
            /\ Moved(r, filename)
            /\ filename \notin DOMAIN r.fs.files
            /\ \E p \in ChildNotes(filename) : r.fs.files[p] = files[p]

(***************************************************************************)
(* The header of a note file and the entry of the note.                    *)
(***************************************************************************)
\* the two lines a note file of the entry begins with
HeaderOf(e) ==
    TitlePrefix \o e.title \o <<NL>> \o TagsPrefix \o tags_str(e.tags) \o <<NL>>

\* C39: in every state, for every entry of every index, the note file the
\* entry names begins with the line '# ' and the title of the entry, followed
\* by the line 'Tags: ' and the tags of the entry joined by ', '.
C39_HeaderMatchesIndex ==
    \A d \in DOMAIN index :
        \A i \in 1..Len(index[d]) :
            index[d][i].filename \in DOMAIN files
                => StartsWith(files[index[d][i].filename], HeaderOf(index[d][i]))

====
